---- MODULE Spec2Model ----
(***************************************************************************)
(* Verification model of the MIDI music generator: the music-theory core   *)
(* (core/theory.py), the harmony and rhythm generation strategies          *)
(* (generators/harmony.py, generators/rhythm.py) and the arrangement       *)
(* assembler (composers/simple_arranger.py).                               *)
(*                                                                         *)
(* Beat durations are exact: rhythm and arranger durations are counted in  *)
(* hundredths of a beat (0.33 beat = 33), the diatonic strategy in half    *)
(* beats, and quotients are kept as reduced fractions <<num, den>>.        *)
(* Binary floating-point rounding of the Python code is not represented.   *)
(***************************************************************************)
EXTENDS Integers, Sequences, FiniteSets, TLC

VARIABLES
    \* ---- Chord.get_midi_notes (core/theory.py) ----
    ch_key,        \* key the chord is realised in
    ch_chord,      \* the Chord object
    ch_notes,      \* last result of get_midi_notes
    ch_called,     \* TRUE once get_midi_notes has returned for ch_chord
    \* ---- apply_voice_leading (core/theory.py) ----
    vl_key,        \* key of the chord list
    vl_chords,     \* the chord list (mutated in place by the pass)
    vl_before,     \* the chord list as it was handed to the last call
    vl_strategy,   \* strategy argument of the last call
    vl_calls,      \* number of apply_voice_leading calls made
    \* ---- ProgressionBasedStrategy (generators/harmony.py) ----
    pb_key,            \* self.key
    pb_beats_per_bar,  \* self.beats_per_bar
    pb_progression,    \* self.progression: a progression name or None
    pb_args,           \* arguments of the last generate call
    pb_chords,         \* the chord objects built by the last generate call
    pb_result,         \* value returned by the last generate call
    pb_status,         \* "constructed", "returned" or the exception raised
    \* ---- DiatonicStrategy (generators/harmony.py) ----
    dt_key,            \* self.key
    dt_beats_per_bar,  \* self.beats_per_bar
    dt_args,           \* arguments of the last generate call
    dt_indices,        \* chord_index of every chord emitted by the last call
    dt_result,         \* value returned by the last generate call
    dt_status,         \* "constructed" or "returned"
    \* ---- rhythm strategies (generators/rhythm.py) ----
    rh_kind,           \* class of the strategy: "pattern", "random" or "hybrid"
    rh_beats_per_bar,  \* self.beats_per_bar (of the strategy and its sub-strategies)
    rh_pattern,        \* self.pattern of the pattern strategy (of strategies[0] in a hybrid)
    rh_constructed,    \* the pattern argument the strategy was constructed with
    rh_runs,           \* the generate calls made so far: seed, num_bars, value returned
    \* ---- SimpleArranger._calculate_structure_factor (composers/simple_arranger.py) ----
    sf_current,        \* argument current_time_ticks
    sf_total,          \* argument total_ticks
    sf_factor,         \* value returned by the call, a fraction
    sf_called,         \* TRUE once the call has returned
    \* ---- SimpleArranger (composers/simple_arranger.py) ----
    ar_tempo,          \* self.tempo
    ar_key,            \* self.key
    ar_tracks,         \* self.mid.tracks: the list of tracks, each a list of events
    ar_calls,          \* the add_track calls made: arguments and the notes processed
    ar_status,         \* "ok", or the exception the last add_track call raised
    gn_registry,
    gn_generators,
    gn_registered,
    st_op,
    st_args,
    st_result,
    hy_status,
    hy_args,
    hy_result,
    sc_args,
    sc_notes,
    sc_status,
    tk_duration_beats,
    tk_draw,
    tk_ticks,
    tk_status,
    mc_key,
    mc_length,
    mc_simulations,
    mc_simulation,
    mc_melody,
    mc_x,
    mc_best,
    mc_step,
    mc_status,
    pm_key,
    pm_status,
    pm_args,
    pm_result,
    rw_key,
    rw_length,
    rw_melody,
    rw_current_note,
    rw_x,
    rw_draws,
    rw_status,
    rr_allowed,
    rr_beats_per_bar,
    rr_num_bars,
    rr_x,
    rr_current,
    rr_durations,
    rr_kind,
    rr_status

chVars == <<ch_key, ch_chord, ch_notes, ch_called>>
vlVars == <<vl_key, vl_chords, vl_before, vl_strategy, vl_calls>>
pbVars == <<pb_key, pb_beats_per_bar, pb_progression, pb_args, pb_chords,
           pb_result, pb_status>>
dtVars == <<dt_key, dt_beats_per_bar, dt_args, dt_indices, dt_result, dt_status>>
rhVars == <<rh_kind, rh_beats_per_bar, rh_pattern, rh_constructed, rh_runs>>
sfVars == <<sf_current, sf_total, sf_factor, sf_called>>
arVars == <<ar_tempo, ar_key, ar_tracks, ar_calls, ar_status>>
gnVars == <<gn_registry, gn_generators, gn_registered>>
stVars == <<st_op, st_args, st_result>>
hyVars == <<hy_status, hy_args, hy_result>>
scVars == <<sc_args, sc_notes, sc_status>>
tkVars == <<tk_duration_beats, tk_draw, tk_ticks, tk_status>>
mcVars == <<mc_key, mc_length, mc_simulations, mc_simulation, mc_melody, mc_x, mc_best, mc_step, mc_status>>
pmVars == <<pm_key, pm_status, pm_args, pm_result>>
rwVars == <<rw_key, rw_length, rw_melody, rw_current_note, rw_x, rw_draws, rw_status>>
rrVars == <<rr_allowed, rr_beats_per_bar, rr_num_bars, rr_x, rr_current, rr_durations, rr_kind, rr_status>>
vars == <<chVars, vlVars, pbVars, dtVars, rhVars, sfVars, arVars, gnVars, stVars, hyVars, scVars, tkVars, mcVars, pmVars, rwVars, rrVars>>

\* the variables of the components an action of one component leaves alone
notCh == <<vlVars, pbVars, dtVars, rhVars, sfVars, arVars, gnVars, stVars, hyVars, scVars, tkVars, mcVars, pmVars, rwVars, rrVars>>
notVL == <<chVars, pbVars, dtVars, rhVars, sfVars, arVars, gnVars, stVars, hyVars, scVars, tkVars, mcVars, pmVars, rwVars, rrVars>>
notPB == <<chVars, vlVars, dtVars, rhVars, sfVars, arVars, gnVars, stVars, hyVars, scVars, tkVars, mcVars, pmVars, rwVars, rrVars>>
notDT == <<chVars, vlVars, pbVars, rhVars, sfVars, arVars, gnVars, stVars, hyVars, scVars, tkVars, mcVars, pmVars, rwVars, rrVars>>
notRh == <<chVars, vlVars, pbVars, dtVars, sfVars, arVars, gnVars, stVars, hyVars, scVars, tkVars, mcVars, pmVars, rwVars, rrVars>>
notSF == <<chVars, vlVars, pbVars, dtVars, rhVars, arVars, gnVars, stVars, hyVars, scVars, tkVars, mcVars, pmVars, rwVars, rrVars>>
notAr == <<chVars, vlVars, pbVars, dtVars, rhVars, sfVars, gnVars, stVars, hyVars, scVars, tkVars, mcVars, pmVars, rwVars, rrVars>>
notGn == <<chVars, vlVars, pbVars, dtVars, rhVars, sfVars, arVars, stVars, hyVars, scVars, tkVars, mcVars, pmVars, rwVars, rrVars>>
notSt == <<chVars, vlVars, pbVars, dtVars, rhVars, sfVars, arVars, gnVars, hyVars, scVars, tkVars, mcVars, pmVars, rwVars, rrVars>>
notHy == <<chVars, vlVars, pbVars, dtVars, rhVars, sfVars, arVars, gnVars, stVars, scVars, tkVars, mcVars, pmVars, rwVars, rrVars>>
notSc == <<chVars, vlVars, pbVars, dtVars, rhVars, sfVars, arVars, gnVars, stVars, hyVars, tkVars, mcVars, pmVars, rwVars, rrVars>>
notTk == <<chVars, vlVars, pbVars, dtVars, rhVars, sfVars, arVars, gnVars, stVars, hyVars, scVars, mcVars, pmVars, rwVars, rrVars>>
notMc == <<chVars, vlVars, pbVars, dtVars, rhVars, sfVars, arVars, gnVars, stVars, hyVars, scVars, tkVars, pmVars, rwVars, rrVars>>
notPm == <<chVars, vlVars, pbVars, dtVars, rhVars, sfVars, arVars, gnVars, stVars, hyVars, scVars, tkVars, mcVars, rwVars, rrVars>>
notRw == <<chVars, vlVars, pbVars, dtVars, rhVars, sfVars, arVars, gnVars, stVars, hyVars, scVars, tkVars, mcVars, pmVars, rrVars>>
notRr == <<chVars, vlVars, pbVars, dtVars, rhVars, sfVars, arVars, gnVars, stVars, hyVars, scVars, tkVars, mcVars, pmVars, rwVars>>

\* ------------------------------------------------------------------------
\* Generic helpers
\* ------------------------------------------------------------------------
Min(a, b) == IF a <= b THEN a ELSE b
Max(a, b) == IF a >= b THEN a ELSE b
Abs(a) == IF a < 0 THEN -a ELSE a

RECURSIVE SumSeq(_)
SumSeq(s) == IF s = <<>> THEN 0 ELSE Head(s) + SumSeq(Tail(s))

RECURSIVE Repeat(_, _)
\* Python list repetition: s * n
Repeat(s, n) == IF n <= 0 THEN <<>> ELSE s \o Repeat(s, n - 1)

\* Python's None for an Optional[int] (no pitch has this value) and for an
\* optional enum member
None == -1000
NoneTag == "None"

\* ------------------------------------------------------------------------
\* core/theory.py : keys and scales
\* ------------------------------------------------------------------------
\* A Key enum value is the note name followed by "" (major) or "m" (minor).
MajorKeyNames == {"C", "C#", "Db", "D", "D#", "Eb", "E", "F", "F#", "Gb",
                  "G", "G#", "Ab", "A", "A#", "Bb", "B"}
MinorKeyNames == {"C", "C#", "D", "D#", "E", "F", "F#", "G", "G#", "A", "A#", "B"}
Key == {<<n, "">> : n \in MajorKeyNames} \cup {<<n, "m">> : n \in MinorKeyNames}
C_MAJOR == <<"C", "">>

base_notes ==
    [n \in MajorKeyNames |->
        CASE n = "C" -> 60 [] n = "C#" -> 61 [] n = "Db" -> 61 [] n = "D" -> 62
          [] n = "D#" -> 63 [] n = "Eb" -> 63 [] n = "E" -> 64 [] n = "F" -> 65
          [] n = "F#" -> 66 [] n = "Gb" -> 66 [] n = "G" -> 67 [] n = "G#" -> 68
          [] n = "Ab" -> 68 [] n = "A" -> 69 [] n = "A#" -> 70 [] n = "Bb" -> 70
          [] n = "B" -> 71]

\* Key.tonic: the value with the minor mark removed, looked up in base_notes
tonic(key) == IF key[1] \in DOMAIN base_notes THEN base_notes[key[1]] ELSE 60
\* Key.is_minor
is_minor(key) == key[2] = "m"
\* Key.scale_type
scale_type(key) == IF is_minor(key) THEN "minor" ELSE "major"

ScaleType == {"major", "minor", "harmonic_minor", "melodic_minor", "dorian",
              "phrygian", "lydian", "mixolydian", "locrian", "pentatonic_major",
              "pentatonic_minor", "blues", "chromatic", "whole_tone"}

get_scale_intervals(st) ==
    CASE st = "major" -> <<2, 2, 1, 2, 2, 2, 1>>
      [] st = "minor" -> <<2, 1, 2, 2, 1, 2, 2>>
      [] st = "harmonic_minor" -> <<2, 1, 2, 2, 1, 3, 1>>
      [] st = "melodic_minor" -> <<2, 1, 2, 2, 2, 2, 1>>
      [] st = "dorian" -> <<2, 1, 2, 2, 2, 1, 2>>
      [] st = "phrygian" -> <<1, 2, 2, 2, 1, 2, 2>>
      [] st = "lydian" -> <<2, 2, 2, 1, 2, 2, 1>>
      [] st = "mixolydian" -> <<2, 2, 1, 2, 2, 1, 2>>
      [] st = "locrian" -> <<1, 2, 2, 1, 2, 2, 2>>
      [] st = "pentatonic_major" -> <<2, 2, 3, 2, 3>>
      [] st = "pentatonic_minor" -> <<3, 2, 2, 3, 2>>
      [] st = "blues" -> <<3, 2, 1, 1, 3, 2>>
      [] st = "chromatic" -> <<1, 1, 1, 1, 1, 1, 1, 1, 1, 1, 1, 1>>
      [] st = "whole_tone" -> <<2, 2, 2, 2, 2, 2>>
      [] OTHER -> <<2, 2, 1, 2, 2, 2, 1>>

RECURSIVE ScaleWalk(_, _)
\* the loop of get_scale_notes: the running note after each interval
ScaleWalk(current_note, intervals) ==
    IF intervals = <<>> THEN <<>>
    ELSE <<current_note + Head(intervals)>>
         \o ScaleWalk(current_note + Head(intervals), Tail(intervals))

\* get_scale_notes without the final notes[:-1]
get_scale_notes_keep_last(key, st, octave, num_octaves) ==
    LET st2 == IF st = NoneTag THEN scale_type(key) ELSE st
        intervals == get_scale_intervals(st2)
        t == tonic(key) + (octave - 4) * 12
    IN  <<t>> \o ScaleWalk(t, Repeat(intervals, num_octaves))

\* get_scale_notes(key, scale_type, octave, num_octaves); st = NoneTag selects
\* the key's default scale type
get_scale_notes(key, st, octave, num_octaves) ==
    LET st2 == IF st = NoneTag THEN scale_type(key) ELSE st
        intervals == get_scale_intervals(st2)
        t == tonic(key) + (octave - 4) * 12
        notes == <<t>> \o ScaleWalk(t, Repeat(intervals, num_octaves))
    IN  SubSeq(notes, 1, Len(notes) - 1)

\* ------------------------------------------------------------------------
\* core/theory.py : chords
\* ------------------------------------------------------------------------
ChordQuality == {"major", "minor", "diminished", "augmented", "sus2", "sus4",
                 "major7", "minor7", "7", "dim7", "m7b5", "mM7", "augM7", "aug7",
                 "maj9", "m9", "9", "mM9", "maj11", "m11", "11",
                 "maj13", "m13", "13"}

get_chord_intervals(quality) ==
    CASE quality = "major" -> <<0, 4, 7>>
      [] quality = "minor" -> <<0, 3, 7>>
      [] quality = "diminished" -> <<0, 3, 6>>
      [] quality = "augmented" -> <<0, 4, 8>>
      [] quality = "sus2" -> <<0, 2, 7>>
      [] quality = "sus4" -> <<0, 5, 7>>
      [] quality = "major7" -> <<0, 4, 7, 11>>
      [] quality = "minor7" -> <<0, 3, 7, 10>>
      [] quality = "7" -> <<0, 4, 7, 10>>
      [] quality = "dim7" -> <<0, 3, 6, 9>>
      [] quality = "m7b5" -> <<0, 3, 6, 10>>
      [] quality = "mM7" -> <<0, 3, 7, 11>>
      [] quality = "augM7" -> <<0, 4, 8, 11>>
      [] quality = "aug7" -> <<0, 4, 8, 10>>
      [] quality = "maj9" -> <<0, 4, 7, 11, 14>>
      [] quality = "m9" -> <<0, 3, 7, 10, 14>>
      [] quality = "9" -> <<0, 4, 7, 10, 14>>
      [] quality = "mM9" -> <<0, 3, 7, 11, 14>>
      [] quality = "maj11" -> <<0, 4, 7, 11, 14, 17>>
      [] quality = "m11" -> <<0, 3, 7, 10, 14, 17>>
      [] quality = "11" -> <<0, 4, 7, 10, 14, 17>>
      [] quality = "maj13" -> <<0, 4, 7, 11, 14, 17, 21>>
      [] quality = "m13" -> <<0, 3, 7, 10, 14, 17, 21>>
      [] quality = "13" -> <<0, 4, 7, 10, 14, 17, 21>>
      [] OTHER -> <<0, 4, 7>>

\* get_scale_notes(key, octave=4, num_octaves=2) for every key, computed once
TwoOctaveScale == [key \in Key |-> get_scale_notes(key, NoneTag, 4, 2)]

\* the Chord dataclass: root, quality, inversion = 0, bass_note = None
Chord(root, quality, inversion, bass_note) ==
    [root |-> root, quality |-> quality, inversion |-> inversion,
     bass_note |-> bass_note]

\* get_midi_notes with the inversion count not limited to size - 1
get_midi_notes_unbounded(chord, key, octave) ==
    LET scale_notes == IF octave = 4 THEN TwoOctaveScale[key]
                       ELSE get_scale_notes(key, NoneTag, octave, 2)
        root_note == IF chord.root < Len(scale_notes)
                     THEN scale_notes[chord.root + 1]
                     ELSE scale_notes[1] + chord.root * 2
        intervals == get_chord_intervals(chord.quality)
        inverted == [j \in 1..Len(intervals) |->
                        IF j <= chord.inversion THEN root_note + intervals[j] + 12
                        ELSE root_note + intervals[j]]
    IN  IF chord.bass_note # None
        THEN <<chord.bass_note>>
             \o SelectSeq(inverted, LAMBDA note : note # chord.bass_note)
        ELSE inverted

\* Chord.get_midi_notes(key, octave)
get_midi_notes(chord, key, octave) ==
    LET scale_notes == IF octave = 4 THEN TwoOctaveScale[key]
                       ELSE get_scale_notes(key, NoneTag, octave, 2)
        root_note == IF chord.root < Len(scale_notes)
                     THEN scale_notes[chord.root + 1]
                     ELSE scale_notes[1] + chord.root * 2
        intervals == get_chord_intervals(chord.quality)
        chord_notes == [j \in 1..Len(intervals) |-> root_note + intervals[j]]
        inversion_count == Min(chord.inversion, Len(chord_notes) - 1)
        inverted == IF chord.inversion > 0
                    THEN [j \in 1..Len(chord_notes) |->
                            IF j <= inversion_count THEN chord_notes[j] + 12
                            ELSE chord_notes[j]]
                    ELSE chord_notes
    IN  IF chord.bass_note # None
        THEN <<chord.bass_note>>
             \o SelectSeq(inverted, LAMBDA note : note # chord.bass_note)
        ELSE inverted

\* ------------------------------------------------------------------------
\* core/theory.py : voice leading
\* ------------------------------------------------------------------------
VoiceLeading == {"close", "open", "mixed", "smooth"}

\* float('inf'), the initial min_movement
Inf == 1000000

\* movement = sum(abs(test_notes[j] - previous_notes[j]) for j in range(min(..)))
Movement(test_notes, previous_notes) ==
    LET n == Min(Len(test_notes), Len(previous_notes))
    IN  SumSeq([j \in 1..n |-> Abs(test_notes[j] - previous_notes[j])])

\* the candidate built inside the loop: root, quality and the tried inversion
TestChord(chord, inversion) == Chord(chord.root, chord.quality, inversion, None)

RECURSIVE BestInversion(_, _, _, _, _, _)
\* for inversion in range(4): keep the first strictly smaller movement
BestInversion(chord, key, previous_notes, inversion, min_movement, best_inversion) ==
    IF inversion >= 4 THEN best_inversion
    ELSE LET test_notes == get_midi_notes(TestChord(chord, inversion), key, 4)
             movement == Movement(test_notes, previous_notes)
         IN  IF movement < min_movement
             THEN BestInversion(chord, key, previous_notes, inversion + 1,
                                movement, inversion)
             ELSE BestInversion(chord, key, previous_notes, inversion + 1,
                                min_movement, best_inversion)

RECURSIVE VoiceLeadingLoop_replace(_, _, _, _)
\* the loop storing the test chord Chord(root, quality, inversion) in the
\* list instead of assigning the inversion field
VoiceLeadingLoop_replace(chords, key, i, previous_notes) ==
    IF i > Len(chords) THEN chords
    ELSE LET best == BestInversion(chords[i], key, previous_notes, 0, Inf,
                                   chords[i].inversion)
             chords2 == [chords EXCEPT ![i] = Chord(chords[i].root, chords[i].quality, best, None)]
         IN  VoiceLeadingLoop_replace(chords2, key, i + 1,
                                      get_midi_notes(chords2[i], key, 4))

RECURSIVE VoiceLeadingLoop(_, _, _, _)
\* for i in range(1, len(chords)); i is the 1-based position here
VoiceLeadingLoop(chords, key, i, previous_notes) ==
    IF i > Len(chords) THEN chords
    ELSE LET best == BestInversion(chords[i], key, previous_notes, 0, Inf,
                                   chords[i].inversion)
             chords2 == [chords EXCEPT ![i].inversion = best]
         IN  VoiceLeadingLoop(chords2, key, i + 1,
                              get_midi_notes(chords2[i], key, 4))

apply_voice_leading(chords, key, strategy) ==
    IF strategy = "smooth" /\ Len(chords) > 1
    THEN VoiceLeadingLoop(chords, key, 2, get_midi_notes(chords[1], key, 4))
    ELSE chords

\* ------------------------------------------------------------------------
\* Chord.get_midi_notes applied to one chord object
\* ------------------------------------------------------------------------
MaxRoot == 6
ChordRoots == 0..MaxRoot
Inversions == 0..3
BassNotes == {None, 60, 72}

ChInit ==
    /\ ch_key \in Key
    /\ ch_chord \in {Chord(r, q, i, b) : r \in ChordRoots, q \in ChordQuality,
                                        i \in Inversions, b \in BassNotes}
    /\ ch_notes = <<>>
    /\ ch_called = FALSE

\* notes = chord.get_midi_notes(key)
ChGetMidiNotes ==
    /\ ch_notes' = get_midi_notes(ch_chord, ch_key, 4)
    /\ ch_called' = TRUE
    /\ UNCHANGED <<ch_key, ch_chord>>
    /\ UNCHANGED notCh

\* chord.inversion = k (the field is assigned by the voice-leading pass)
ChSetInversion(k) ==
    /\ k # ch_chord.inversion
    /\ ch_chord' = [ch_chord EXCEPT !.inversion = k]
    /\ ch_called' = FALSE
    /\ UNCHANGED <<ch_key, ch_notes>>
    /\ UNCHANGED notCh

ChNext ==
    \/ ChGetMidiNotes
    \/ \E k \in Inversions : ChSetInversion(k)

\* ------------------------------------------------------------------------
\* apply_voice_leading applied to a chord list
\* ------------------------------------------------------------------------
MaxChords == 3
MaxCalls == 2
VLKeys == {C_MAJOR, <<"A", "m">>}
VLChords == {Chord(r, q, i, b) : r \in {0, 4}, q \in {"major", "minor7"},
                                 i \in {0, 2}, b \in {None, 48}}

VLInit ==
    /\ vl_key \in VLKeys
    /\ vl_chords = <<>>
    /\ vl_before = <<>>
    /\ vl_strategy = NoneTag
    /\ vl_calls = 0

\* chords.append(Chord(...)) while the caller builds the list
VLAppend(c) ==
    /\ vl_calls = 0
    /\ Len(vl_chords) < MaxChords
    /\ vl_chords' = Append(vl_chords, c)
    /\ UNCHANGED <<vl_key, vl_before, vl_strategy, vl_calls>>
    /\ UNCHANGED notVL

\* chords = apply_voice_leading(chords, key, strategy)
VLApply(strategy) ==
    /\ vl_calls < MaxCalls
    /\ vl_before' = vl_chords
    /\ vl_chords' = apply_voice_leading(vl_chords, vl_key, strategy)
    /\ vl_strategy' = strategy
    /\ vl_calls' = vl_calls + 1
    /\ UNCHANGED vl_key
    /\ UNCHANGED notVL

VLNext ==
    \/ \E c \in VLChords : VLAppend(c)
    \/ \E st \in VoiceLeading : VLApply(st)

\* ------------------------------------------------------------------------
\* Exact fractions <<num, den>> with den > 0, kept reduced
\* ------------------------------------------------------------------------
RECURSIVE GCD(_, _)
GCD(a, b) == IF b = 0 THEN a ELSE GCD(b, a % b)

Frac(n, d) ==
    LET g == GCD(Abs(n), Abs(d))
        sgn == IF d < 0 THEN -1 ELSE 1
    IN  IF n = 0 THEN <<0, 1>> ELSE <<sgn * (n \div g), sgn * (d \div g)>>
FracInt(n) == <<n, 1>>
FracAdd(x, y) == Frac(x[1] * y[2] + y[1] * x[2], x[2] * y[2])
FracSub(x, y) == Frac(x[1] * y[2] - y[1] * x[2], x[2] * y[2])
FracMul(x, y) == Frac(x[1] * y[1], x[2] * y[2])
FracDiv(x, y) == Frac(x[1] * y[2], x[2] * y[1])
FracLess(x, y) == x[1] * y[2] < y[1] * x[2]
FracMax(x, y) == IF FracLess(x, y) THEN y ELSE x
FracMin(x, y) == IF FracLess(y, x) THEN y ELSE x
\* Python int(): truncation toward zero
Trunc(n, d) == IF n >= 0 THEN n \div d ELSE -((-n) \div d)
FracTrunc(x) == Trunc(x[1], x[2])

\* ------------------------------------------------------------------------
\* The random module: one seeded pseudo-random source.  A state of the source
\* is a number; every draw advances it.  random.random() is k/RandRange.
\* ------------------------------------------------------------------------
RandRange == 20
NumSeeds == 3
Seeds == 0..(NumSeeds - 1)

\* random.seed(s)
RandomSeed(s) == (s * 53 + 11) % 400
\* the source after one draw
RandomNext(x) == (21 * x + 7) % 400
\* the numerator k of the value random.random() = k/RandRange drawn in state x
RandomValue(x) == (x \div 20) % RandRange
\* random.randint(a, b) drawn in state x
RandInt(x, a, b) == a + (RandomValue(x) * (b - a + 1)) \div RandRange
\* random.choice(seq) drawn in state x
RandChoice(x, seq) == seq[1 + (RandomValue(x) * Len(seq)) \div RandRange]
\* random.uniform(a, b) = a + (b - a) * random(), a and b fractions
RandUniform(x, a, b) ==
    FracAdd(a, FracMul(FracSub(b, a), Frac(RandomValue(x), RandRange)))

\* ------------------------------------------------------------------------
\* core/theory.py : chord progressions
\* ------------------------------------------------------------------------
ProgressionNames == {"pop_basic", "pop_50s", "jazz_251", "jazz_rhythm",
                     "rock_basic", "blues_basic", "classical_authentic",
                     "classical_plagal", "modern_trending", "complex_cycle"}

CHORD_PROGRESSIONS ==
    [name \in ProgressionNames |->
        CASE name = "pop_basic" ->
               [chords |-> <<<<1, "major">>, <<5, "major">>, <<6, "minor">>, <<4, "major">>>>,
                style |-> "pop", complexity |-> 1]
          [] name = "pop_50s" ->
               [chords |-> <<<<1, "major">>, <<6, "minor">>, <<4, "major">>, <<5, "major">>>>,
                style |-> "pop", complexity |-> 1]
          [] name = "jazz_251" ->
               [chords |-> <<<<2, "minor">>, <<5, "7">>, <<1, "major7">>>>,
                style |-> "jazz", complexity |-> 2]
          [] name = "jazz_rhythm" ->
               [chords |-> <<<<1, "major7">>, <<6, "minor7">>, <<2, "minor7">>, <<5, "7">>>>,
                style |-> "jazz", complexity |-> 2]
          [] name = "rock_basic" ->
               [chords |-> <<<<1, "major">>, <<4, "major">>, <<5, "major">>>>,
                style |-> "rock", complexity |-> 1]
          [] name = "blues_basic" ->
               [chords |-> <<<<1, "7">>, <<4, "7">>, <<1, "7">>, <<5, "7">>, <<4, "7">>, <<1, "7">>>>,
                style |-> "blues", complexity |-> 2]
          [] name = "classical_authentic" ->
               [chords |-> <<<<5, "major">>, <<1, "major">>>>,
                style |-> "classical", complexity |-> 1]
          [] name = "classical_plagal" ->
               [chords |-> <<<<4, "major">>, <<1, "major">>>>,
                style |-> "classical", complexity |-> 1]
          [] name = "modern_trending" ->
               [chords |-> <<<<6, "minor">>, <<4, "major">>, <<1, "major">>, <<5, "major">>>>,
                style |-> "pop", complexity |-> 2]
          [] name = "complex_cycle" ->
               [chords |-> <<<<1, "major7">>, <<4, "7">>, <<7, "dim7">>, <<3, "minor7">>,
                             <<6, "minor7">>, <<2, "minor7">>, <<5, "7">>, <<1, "major7">>>>,
                style |-> "jazz", complexity |-> 4]]

\* get_progression_by_name: the table entry, or None
get_progression_by_name(name) ==
    IF name \in DOMAIN CHORD_PROGRESSIONS THEN name ELSE NoneTag

\* ------------------------------------------------------------------------
\* generators/harmony.py : ProgressionBasedStrategy
\* ------------------------------------------------------------------------
\* HarmonyStrategy._apply_inversion
ApplyInversion(chord, inversion) ==
    Chord(chord.root, chord.quality, inversion, chord.bass_note)

RECURSIVE PBBuildChords_degree_as_root(_, _, _, _, _, _)
\* the chord loop with the 1-based degree used as the 0-based root
PBBuildChords_degree_as_root(key, progression_chords, total_chords, inversion_mode, chords, x) ==
    IF Len(chords) >= total_chords
    THEN [chords |-> chords, x |-> x, error |-> NoneTag]
    ELSE LET entry == progression_chords[(Len(chords) % Len(progression_chords)) + 1]
         IN  PBBuildChords_degree_as_root(key, progression_chords, total_chords,
                                          inversion_mode,
                                          Append(chords, Chord(entry[1], entry[2], 0, None)),
                                          x)

RECURSIVE PBBuildChords(_, _, _, _, _, _)
\* the loop "for _ in range(total_chords)"; x is the state of the random source
PBBuildChords(key, progression_chords, total_chords, inversion_mode, chords, x) ==
    IF Len(chords) >= total_chords
    THEN [chords |-> chords, x |-> x, error |-> NoneTag]
    ELSE LET chord_index == Len(chords)
             entry == progression_chords[(chord_index % Len(progression_chords)) + 1]
             chord == Chord(entry[1] - 1, entry[2], 0, None)
         IN  IF inversion_mode = "random"
             THEN PBBuildChords(key, progression_chords, total_chords, inversion_mode,
                                Append(chords, ApplyInversion(chord, RandInt(x, 0, 2))),
                                RandomNext(x))
             ELSE IF inversion_mode = "bass_motion" /\ chords # <<>>
             \* prev_bass = chords[-1][0] subscripts a Chord object
             THEN [chords |-> chords, x |-> x, error |-> "TypeError"]
             ELSE PBBuildChords(key, progression_chords, total_chords, inversion_mode,
                                Append(chords, chord), x)

RECURSIVE PBRandomDurations(_, _, _)
\* rhythm == "random": beats_per_chord * random.uniform(0.5, 1.5) per chord
PBRandomDurations(beats_per_chord, total_chords, x) ==
    IF total_chords <= 0 THEN <<>>
    ELSE <<FracMul(beats_per_chord, RandUniform(x, Frac(1, 2), Frac(3, 2)))>>
         \o PBRandomDurations(beats_per_chord, total_chords - 1, RandomNext(x))

\* the duration list of the chosen rhythm mode
PBDurations(beats_per_chord, total_chords, rhythm, x) ==
    IF rhythm = "steady" THEN [i \in 1..total_chords |-> beats_per_chord]
    ELSE IF rhythm = "syncopated"
    THEN [i \in 1..total_chords |->
            IF (i - 1) % 2 = 1 THEN FracMul(beats_per_chord, Frac(1, 2))
            ELSE FracMul(beats_per_chord, Frac(3, 2))]
    ELSE IF rhythm = "random" THEN PBRandomDurations(beats_per_chord, total_chords, x)
    ELSE [i \in 1..total_chords |-> beats_per_chord]

\* the (root_note, duration) tuples zipped from the chords and the durations
PBZip(key, chords, durations) ==
    [chords |-> chords,
     result |-> [i \in 1..Min(Len(chords), Len(durations)) |->
                   <<get_midi_notes(chords[i], key, 4)[1], durations[i]>>],
     error |-> NoneTag]

\* the part of generate after the chord loop
PBFinish(key, beats_per_bar, total_chords, chords_per_bar, rhythm, apply_voice_leading_flag, built) ==
    IF built.error # NoneTag
    THEN [chords |-> built.chords, result |-> <<>>, error |-> built.error]
    ELSE PBZip(key,
               IF apply_voice_leading_flag
               THEN apply_voice_leading(built.chords, key, "smooth")
               ELSE built.chords,
               PBDurations(Frac(beats_per_bar, chords_per_bar), total_chords, rhythm,
                           built.x))

\* ProgressionBasedStrategy.generate: the chords built, the value returned
\* and the exception raised (None when it returns)
PBGenerateResult(key, beats_per_bar, progression, num_bars, chords_per_bar, rhythm, apply_voice_leading_flag, inversion_mode, x0) ==
    IF progression = NoneTag
    THEN [chords |-> <<>>, result |-> <<>>, error |-> "ValueError"]
    ELSE PBFinish(key, beats_per_bar, num_bars * chords_per_bar, chords_per_bar, rhythm,
                  apply_voice_leading_flag,
                  PBBuildChords(key, CHORD_PROGRESSIONS[progression].chords,
                                num_bars * chords_per_bar, inversion_mode, <<>>, x0))

MaxBars == 4
MaxChordsPerBar == 2
BeatsPerBarChoices == {3, 4}
RhythmModes == {"steady", "syncopated", "random"}
InversionModes == {"none", "random", "bass_motion"}
PBKeys == {C_MAJOR, <<"F#", "">>, <<"Bb", "">>, <<"A", "m">>, <<"D#", "m">>}
NoArgs == [num_bars |-> 0, chords_per_bar |-> 1, rhythm |-> "steady",
           apply_voice_leading_flag |-> FALSE, inversion_mode |-> "none", seed |-> 0]

\* the strategy after __init__: a named progression, a progression of the
\* requested style, or None when no progression has that style
PBInit ==
    /\ pb_key \in PBKeys
    /\ pb_beats_per_bar \in BeatsPerBarChoices
    /\ pb_progression \in ProgressionNames \cup {NoneTag}
    /\ pb_args = NoArgs
    /\ pb_chords = <<>>
    /\ pb_result = <<>>
    /\ pb_status = "constructed"

\* random.seed(seed); strategy.generate(num_bars, chords_per_bar, rhythm, ...)
PBGenerate(num_bars, chords_per_bar, rhythm, vlflag, inversion_mode, seed) ==
    /\ pb_status = "constructed"
    /\ \E r \in {PBGenerateResult(pb_key, pb_beats_per_bar, pb_progression, num_bars,
                                  chords_per_bar, rhythm, vlflag, inversion_mode,
                                  RandomSeed(seed))} :
        /\ pb_args' = [num_bars |-> num_bars, chords_per_bar |-> chords_per_bar,
                       rhythm |-> rhythm, apply_voice_leading_flag |-> vlflag,
                       inversion_mode |-> inversion_mode, seed |-> seed]
        /\ pb_chords' = r.chords
        /\ pb_result' = r.result
        /\ pb_status' = IF r.error = NoneTag THEN "returned" ELSE r.error
        /\ UNCHANGED <<pb_key, pb_beats_per_bar, pb_progression>>
        /\ UNCHANGED notPB

PBNext ==
    \E num_bars \in 0..MaxBars, chords_per_bar \in 1..MaxChordsPerBar,
       rhythm \in RhythmModes, vlflag \in BOOLEAN, inversion_mode \in InversionModes :
        \E seed \in (IF rhythm = "random" \/ inversion_mode = "random"
                     THEN Seeds ELSE {0}) :
            PBGenerate(num_bars, chords_per_bar, rhythm, vlflag, inversion_mode, seed)

\* ------------------------------------------------------------------------
\* core/theory.py : get_diatonic_chord; generators/harmony.py : DiatonicStrategy
\* ------------------------------------------------------------------------
major_qualities == <<"major", "minor", "minor", "major", "major", "minor", "diminished">>
minor_qualities == <<"minor", "diminished", "major", "minor", "minor", "major", "major">>

get_diatonic_chord(degree, key, quality_type) ==
    LET qualities == IF quality_type = "major" \/ ~is_minor(key)
                     THEN major_qualities ELSE minor_qualities
        root == (degree - 1) % 7
    IN  Chord(root, qualities[root + 1], 0, None)

\* self.diatonic_chords, built in __init__ with the default quality_type
diatonic_chords(key) == [d \in 1..7 |-> get_diatonic_chord(d, key, "major")]

\* the durations random.choice picks from, in beats
DiatonicDurations == <<Frac(1, 2), Frac(1, 1), Frac(2, 1), Frac(4, 1)>>

RECURSIVE DTLoop_unclipped(_, _, _, _, _, _, _, _, _)
RECURSIVE DTLoop(_, _, _, _, _, _, _, _, _)

\* the while loop without "duration = min(duration, remaining)"
DTLoop_unclipped(key, total_beats, density, avoid_repetition, current_beat, last_chord_index, result, indices, x) ==
    IF ~FracLess(current_beat, total_beats)
    THEN [result |-> result, indices |-> indices]
    ELSE IF FracLess(Frac(RandomValue(x), RandRange), density)
    THEN LET x1 == RandomNext(x)
             x2 == RandomNext(x1)
             chord_index == RandInt(x1, 0, 6)
             duration == RandChoice(x2, DiatonicDurations)
             root_note == get_midi_notes(diatonic_chords(key)[chord_index + 1], key, 4)[1]
         IN  DTLoop_unclipped(key, total_beats, density, avoid_repetition,
                              FracAdd(current_beat, duration), chord_index,
                              Append(result, <<root_note, duration>>),
                              Append(indices, chord_index), RandomNext(x2))
    ELSE DTLoop_unclipped(key, total_beats, density, avoid_repetition,
                          FracAdd(current_beat, Frac(1, 2)), last_chord_index,
                          result, indices, RandomNext(x))

\* while current_beat < total_beats; x is the state of the random source
DTLoop(key, total_beats, density, avoid_repetition, current_beat, last_chord_index, result, indices, x) ==
    IF ~FracLess(current_beat, total_beats)
    THEN [result |-> result, indices |-> indices]
    ELSE IF FracLess(Frac(RandomValue(x), RandRange), density)
    THEN LET x1 == RandomNext(x)
             x2 == RandomNext(x1)
             available_indices == SelectSeq(<<0, 1, 2, 3, 4, 5, 6>>,
                                            LAMBDA i : i # last_chord_index)
             chord_index == IF avoid_repetition
                            THEN RandChoice(x1, available_indices)
                            ELSE RandInt(x1, 0, 6)
             chord == diatonic_chords(key)[chord_index + 1]
             root_note == get_midi_notes(chord, key, 4)[1]
             remaining == FracSub(total_beats, current_beat)
             duration == FracMin(RandChoice(x2, DiatonicDurations), remaining)
         IN  DTLoop(key, total_beats, density, avoid_repetition,
                    FracAdd(current_beat, duration), chord_index,
                    Append(result, <<root_note, duration>>),
                    Append(indices, chord_index), RandomNext(x2))
    ELSE DTLoop(key, total_beats, density, avoid_repetition,
                FracAdd(current_beat, Frac(1, 2)), last_chord_index,
                result, indices, RandomNext(x))

\* the cadence override of the last two chords
DTApplyCadence(key, result, cadence_pattern) ==
    IF cadence_pattern # <<>> /\ Len(cadence_pattern) >= 2 /\ Len(result) >= 2
    THEN LET n == Len(result)
             root(k) == get_midi_notes(diatonic_chords(key)[cadence_pattern[k]], key, 4)[1]
         IN  [result EXCEPT ![n - 1] = <<root(1), result[n - 1][2]>>,
                            ![n] = <<root(2), result[n][2]>>]
    ELSE result

\* DiatonicStrategy.generate; cadence_pattern <<>> stands for None
DTGenerateResult(key, beats_per_bar, num_bars, density, avoid_repetition, cadence_pattern, x0) ==
    LET total_beats == FracInt(num_bars * beats_per_bar)
        loop == DTLoop(key, total_beats, density, avoid_repetition, FracInt(0), -1,
                       <<>>, <<>>, x0)
    IN  [result |-> DTApplyCadence(key, loop.result, cadence_pattern),
         indices |-> loop.indices]

DTKeys == {C_MAJOR, <<"A", "m">>}
DensityChoices == {Frac(1, 2), Frac(1, 1)}
CadenceChoices == {<<>>, <<5, 1>>}
DTSeeds == 0..(8 * NumSeeds - 1)
DTNoArgs == [num_bars |-> 0, density |-> Frac(1, 2), avoid_repetition |-> TRUE,
             cadence_pattern |-> <<>>, seed |-> 0]

\* the strategy after __init__
DTInit ==
    /\ dt_key \in DTKeys
    /\ dt_beats_per_bar \in BeatsPerBarChoices
    /\ dt_args = DTNoArgs
    /\ dt_indices = <<>>
    /\ dt_result = <<>>
    /\ dt_status = "constructed"

\* random.seed(seed); strategy.generate(num_bars, density, avoid_repetition, cadence)
DTGenerate(num_bars, density, avoid_repetition, cadence_pattern, seed) ==
    /\ dt_status = "constructed"
    /\ \E r \in {DTGenerateResult(dt_key, dt_beats_per_bar, num_bars, density,
                                  avoid_repetition, cadence_pattern, RandomSeed(seed))} :
        /\ dt_args' = [num_bars |-> num_bars, density |-> density,
                       avoid_repetition |-> avoid_repetition,
                       cadence_pattern |-> cadence_pattern, seed |-> seed]
        /\ dt_indices' = r.indices
        /\ dt_result' = r.result
        /\ dt_status' = "returned"
        /\ UNCHANGED <<dt_key, dt_beats_per_bar>>
        /\ UNCHANGED notDT

DTNext ==
    \E num_bars \in 0..MaxBars, density \in DensityChoices, avoid \in BOOLEAN,
       cadence \in CadenceChoices, seed \in DTSeeds :
        DTGenerate(num_bars, density, avoid, cadence, seed)

\* ------------------------------------------------------------------------
\* generators/rhythm.py : rhythm strategies.  Durations are whole numbers of
\* hundredths of a beat (every predefined duration is a multiple of 0.01).
\* ------------------------------------------------------------------------
Beat == 100

\* list(RhythmPattern), in definition order
RhythmPattern ==
    <<"steady_quarters", "steady_eighths", "half_quarter", "syncopated_8",
      "syncopated_16", "anticipation", "rock_beat", "disco", "hip_hop", "house",
      "swing_eighths", "jazz_comp", "bossa_nova", "samba", "salsa", "techno",
      "trance", "dubstep">>

RhythmPatternNames == {RhythmPattern[i] : i \in DOMAIN RhythmPattern}

RHYTHM_PATTERNS ==
    [name \in RhythmPatternNames |->
        CASE name = "steady_quarters" -> <<100, 100, 100, 100>>
          [] name = "steady_eighths" -> [i \in 1..8 |-> 50]
          [] name = "half_quarter" -> <<200, 100, 100>>
          [] name = "syncopated_8" -> <<100, 50, 50, 100, 100>>
          [] name = "syncopated_16" -> <<50, 25, 25, 50, 50, 50, 50, 50, 50>>
          [] name = "anticipation" -> <<50, 50, 100, 50, 50, 100>>
          [] name = "rock_beat" -> <<50, 50, 50, 50, 50, 50, 50, 50>>
          [] name = "disco" -> <<50, 50, 25, 25, 50, 50, 50, 50, 25, 25>>
          [] name = "hip_hop" -> <<50, 50, 50, 25, 25, 50, 50, 50, 50>>
          [] name = "house" -> [i \in 1..16 |-> 25]
          [] name = "swing_eighths" -> <<66, 33, 66, 33, 66, 33, 66, 33>>
          [] name = "jazz_comp" -> <<100, 50, 50, 100, 50, 50>>
          [] name = "bossa_nova" -> <<50, 50, 50, 25, 25, 50, 50, 50>>
          [] name = "samba" -> <<50, 50, 25, 25, 50, 25, 25, 50, 25, 25>>
          [] name = "salsa" -> <<50, 50, 50, 50, 25, 25, 50, 50>>
          [] name = "techno" -> [i \in 1..16 |-> 25]
          [] name = "trance" -> [i \in 1..16 |-> 25]
          [] name = "dubstep" -> <<100, 25, 75, 100, 50, 50, 25, 25, 50>>]

RECURSIVE SumRange(_, _, _)
\* s[lo] + ... + s[hi]
SumRange(s, lo, hi) ==
    IF lo > hi THEN 0
    ELSE IF lo = hi THEN s[lo]
    ELSE SumRange(s, lo, (lo + hi) \div 2) + SumRange(s, ((lo + hi) \div 2) + 1, hi)

\* sum(durations)
Sum(s) == SumRange(s, 1, Len(s))

\* the truncation loop of _normalize_to_bars: elements are kept while the
\* running total stays within total; the first element that does not fit is
\* replaced by the remaining budget when that is positive, and the loop ends
Trimmed(durations, total) ==
    LET over == {i \in 1..Len(durations) : SumRange(durations, 1, i) > total}
    IN  IF over = {} THEN durations
        ELSE LET b == CHOOSE i \in over : \A j \in over : i <= j
                 remaining == total - SumRange(durations, 1, b - 1)
             IN  SubSeq(durations, 1, b - 1)
                 \o (IF remaining > 0 THEN <<remaining>> ELSE <<>>)

\* _normalize_to_bars whose truncation drops the note that does not fit
\* instead of cutting it down to the remaining budget
normalize_to_bars_no_fill(durations, num_bars, beats_per_bar) ==
    LET total_beats == num_bars * beats_per_bar
        total == total_beats * Beat
        current_total == Sum(durations)
        over == {i \in 1..Len(durations) : SumRange(durations, 1, i) > total}
    IN  IF current_total = 0 THEN [i \in 1..total_beats |-> Beat]
        ELSE IF current_total < total
        THEN durations \o [i \in 1..Trunc(total - current_total, durations[Len(durations)])
                             |-> durations[Len(durations)]]
        ELSE IF current_total > total
        THEN SubSeq(durations, 1, (CHOOSE i \in over : \A j \in over : i <= j) - 1)
        ELSE durations

\* RhythmStrategy._normalize_to_bars
normalize_to_bars(durations, num_bars, beats_per_bar) ==
    LET total_beats == num_bars * beats_per_bar
        total == total_beats * Beat
        current_total == Sum(durations)
    IN  IF current_total = 0 THEN [i \in 1..total_beats |-> Beat]
        ELSE IF current_total < total
        THEN LET last_duration == durations[Len(durations)]
                 extra == Trunc(total - current_total, last_duration)
             IN  durations \o [i \in 1..extra |-> last_duration]
        ELSE IF current_total > total THEN Trimmed(durations, total)
        ELSE durations

\* the pattern tiled int(total_beats / pattern_beats) + 1 times, then normalised
TilePattern(base_pattern, num_bars, beats_per_bar) ==
    LET pattern_beats == Sum(base_pattern)
        repetitions == Trunc(num_bars * beats_per_bar * Beat, pattern_beats) + 1
        n == Len(base_pattern)
    IN  normalize_to_bars([i \in 1..(repetitions * n) |-> base_pattern[((i - 1) % n) + 1]],
                          num_bars, beats_per_bar)

\* PatternBasedRhythmStrategy.generate: the value returned, self.pattern after
\* the call and the state of the random source after the call
PatternGenerate(pattern, beats_per_bar, num_bars, x) ==
    LET chosen == IF pattern = NoneTag THEN RandChoice(x, RhythmPattern) ELSE pattern
        base_pattern == IF chosen \in DOMAIN RHYTHM_PATTERNS
                        THEN RHYTHM_PATTERNS[chosen] ELSE <<100, 100, 100, 100>>
    IN  [result |-> TilePattern(base_pattern, num_bars, beats_per_bar),
         pattern |-> chosen,
         x |-> IF pattern = NoneTag THEN RandomNext(x) ELSE x]

\* RandomRhythmStrategy.allowed_durations by default
allowed_durations == <<50, 100, 150, 200>>

RECURSIVE RandomRhythmLoop(_, _, _, _, _)
\* the loop "while current < total_beats" of RandomRhythmStrategy.generate
RandomRhythmLoop(allowed, total, current, durations, x) ==
    IF current >= total THEN [result |-> durations, x |-> x]
    ELSE LET first == RandChoice(x, allowed)
             remaining == total - current
             smaller_options == SelectSeq(allowed, LAMBDA d : d <= remaining)
             second == first > remaining /\ smaller_options # <<>>
             duration == IF first <= remaining THEN first
                         ELSE IF second THEN RandChoice(RandomNext(x), smaller_options)
                         ELSE remaining
         IN  RandomRhythmLoop(allowed, total, current + duration,
                              Append(durations, duration),
                              IF second THEN RandomNext(RandomNext(x)) ELSE RandomNext(x))

\* RandomRhythmStrategy.generate
RandomRhythmGenerate(allowed, beats_per_bar, num_bars, x) ==
    RandomRhythmLoop(allowed, num_bars * beats_per_bar * Beat, 0, <<>>, x)

\* the second half of HybridRhythmStrategy.generate, strategies[1] a
\* RandomRhythmStrategy: first is what strategies[0].generate returned
HybridSecond(first, beats_per_bar, second_half_bars) ==
    LET second == RandomRhythmGenerate(allowed_durations, beats_per_bar,
                                       second_half_bars, first.x)
    IN  [result |-> first.result \o second.result, pattern |-> first.pattern,
         x |-> second.x]

\* HybridRhythmStrategy.generate with strategies = [PatternBasedRhythmStrategy,
\* RandomRhythmStrategy]
HybridGenerate(pattern, beats_per_bar, num_bars, x) ==
    HybridSecond(PatternGenerate(pattern, beats_per_bar, num_bars \div 2, x),
                 beats_per_bar, num_bars - (num_bars \div 2))

\* strategy.generate(num_bars) for the three classes
RhGenerateResult(kind, pattern, beats_per_bar, num_bars, x) ==
    IF kind = "pattern" THEN PatternGenerate(pattern, beats_per_bar, num_bars, x)
    ELSE IF kind = "hybrid" THEN HybridGenerate(pattern, beats_per_bar, num_bars, x)
    ELSE LET r == RandomRhythmGenerate(allowed_durations, beats_per_bar, num_bars, x)
         IN  [result |-> r.result, pattern |-> pattern, x |-> r.x]

MaxRhythmBars == 3
MaxBeatsPerBar == 4
MaxRuns == 2
RhythmKinds == {"pattern", "random", "hybrid"}
\* pattern arguments of the sub-strategy of a hybrid: None, the default, one more
HybridPatterns == {NoneTag, "steady_quarters", "swing_eighths"}

\* a strategy after construction
RhInit ==
    /\ rh_kind \in RhythmKinds
    /\ rh_beats_per_bar \in 1..MaxBeatsPerBar
    /\ rh_pattern \in (IF rh_kind = "pattern" THEN RhythmPatternNames \cup {NoneTag}
                       ELSE IF rh_kind = "hybrid" THEN HybridPatterns
                       ELSE {NoneTag})
    /\ rh_constructed = rh_pattern
    /\ rh_runs = <<>>

\* random.seed(seed); strategy.generate(num_bars)
RhGenerate(num_bars, seed) ==
    /\ Len(rh_runs) < MaxRuns
    /\ \E r \in {RhGenerateResult(rh_kind, rh_pattern, rh_beats_per_bar, num_bars,
                                  RandomSeed(seed))} :
        /\ rh_pattern' = r.pattern
        /\ rh_runs' = Append(rh_runs, [seed |-> seed, num_bars |-> num_bars,
                                       result |-> r.result])
        /\ UNCHANGED <<rh_kind, rh_beats_per_bar, rh_constructed>>
        /\ UNCHANGED notRh

\* a strategy that makes no draw is run under one seed only
RhNext ==
    \E num_bars \in 0..MaxRhythmBars :
        \E seed \in (IF rh_kind = "pattern" /\ rh_pattern # NoneTag THEN {0} ELSE Seeds) :
            RhGenerate(num_bars, seed)

\* ------------------------------------------------------------------------
\* composers/simple_arranger.py : SimpleArranger._calculate_structure_factor,
\* computed exactly; the decimal literals are the fractions they denote
\* ------------------------------------------------------------------------
\* the envelope whose last segment stays at 1.2 instead of fading out
calculate_structure_factor_no_fade(current_time_ticks, total_ticks) ==
    IF total_ticks = 0 THEN FracInt(1)
    ELSE LET progress == Frac(current_time_ticks, total_ticks)
         IN  IF FracLess(progress, Frac(15, 100))
             THEN FracAdd(Frac(6, 10),
                          FracMul(FracDiv(progress, Frac(15, 100)), Frac(4, 10)))
             ELSE IF FracLess(progress, Frac(70, 100)) THEN FracInt(1)
             ELSE IF FracLess(progress, Frac(90, 100))
             THEN FracAdd(FracInt(1),
                          FracMul(FracDiv(FracSub(progress, Frac(70, 100)), Frac(20, 100)),
                                  Frac(2, 10)))
             ELSE Frac(12, 10)

\* SimpleArranger._calculate_structure_factor
calculate_structure_factor(current_time_ticks, total_ticks) ==
    IF total_ticks = 0 THEN FracInt(1)
    ELSE LET progress == Frac(current_time_ticks, total_ticks)
         IN  IF FracLess(progress, Frac(15, 100))
             THEN FracAdd(Frac(6, 10),
                          FracMul(FracDiv(progress, Frac(15, 100)), Frac(4, 10)))
             ELSE IF FracLess(progress, Frac(70, 100)) THEN FracInt(1)
             ELSE IF FracLess(progress, Frac(90, 100))
             THEN FracAdd(FracInt(1),
                          FracMul(FracDiv(FracSub(progress, Frac(70, 100)), Frac(20, 100)),
                                  Frac(2, 10)))
             ELSE FracSub(Frac(12, 10),
                          FracMul(FracDiv(FracSub(progress, Frac(90, 100)), Frac(10, 100)),
                                  Frac(5, 10)))

MaxTotalTicks == 40
MaxOvershoot == 8

\* the arguments of one call: any total, any time up to a little past the total
SFInit ==
    /\ sf_total \in 0..MaxTotalTicks
    /\ sf_current \in 0..(MaxTotalTicks + MaxOvershoot)
    /\ sf_factor = FracInt(0)
    /\ sf_called = FALSE

\* factor = arranger._calculate_structure_factor(current_time_ticks, total_ticks)
SFCall ==
    /\ ~sf_called
    /\ sf_factor' = calculate_structure_factor(sf_current, sf_total)
    /\ sf_called' = TRUE
    /\ UNCHANGED <<sf_current, sf_total>>
    /\ UNCHANGED notSF

SFNext == SFCall

\* ------------------------------------------------------------------------
\* composers/simple_arranger.py : SimpleArranger.  Beat durations are whole
\* numbers of hundredths of a beat, tick counts are integers.
\* ------------------------------------------------------------------------
ticks_per_beat == 480

\* _get_note_duration_ticks with round() in place of int()
get_note_duration_ticks_rounded(duration_beats, k) ==
    LET ticks == (2 * duration_beats * ticks_per_beat + Beat) \div (2 * Beat)
        variation == Trunc(ticks * 5 * (2 * k - RandRange), 100 * 2 * RandRange)
    IN  Max(1, ticks + variation)

\* the conversion without the floor of one tick
get_note_duration_ticks_no_floor(duration_beats, k) ==
    Trunc(duration_beats * ticks_per_beat, Beat)
    + Trunc(Trunc(duration_beats * ticks_per_beat, Beat) * 5 * (2 * k - RandRange),
            100 * 2 * RandRange)

\* SimpleArranger._get_note_duration_ticks; k is the numerator of the value
\* random.random() = k/RandRange drawn by the call
get_note_duration_ticks(duration_beats, k) ==
    LET ticks == Trunc(duration_beats * ticks_per_beat, Beat)
        \* int(ticks * 0.05 * (random.random() - 0.5))
        variation == Trunc(ticks * 5 * (2 * k - RandRange), 100 * 2 * RandRange)
    IN  Max(1, ticks + variation)

\* the items a generator can return: a bare pitch, a (pitch, beats) pair or a
\* (pitch, beats, velocity) triple
IntItem(p) == [shape |-> "int", note |-> p]
PairItem(p, d) == [shape |-> "pair", note |-> p, duration |-> d]
TripleItem(p, d, v) == [shape |-> "triple", note |-> p, duration |-> d, velocity |-> v]

\* item[1] of a tuple, 1.0 for anything else
ItemBeats(item) == IF item.shape = "int" THEN Beat ELSE item.duration
\* the velocity defaulting to 64 instead of 100
ItemVelocity_default_64(item) == IF item.shape = "triple" THEN item.velocity ELSE 64
\* the velocity of a triple, 100 by default
ItemVelocity(item) == IF item.shape = "triple" THEN item.velocity ELSE 100

\* total_ticks = int(total_duration_beats * self.ticks_per_beat)
TotalTicks(notes_data) ==
    Trunc(Sum([i \in 1..Len(notes_data) |-> ItemBeats(notes_data[i])]) * ticks_per_beat,
          Beat)

\* int(min(127, max(1, velocity * structure_factor)))
FinalVelocity(velocity, structure_factor) ==
    FracTrunc(FracMin(FracInt(127),
                      FracMax(FracInt(1), FracMul(FracInt(velocity), structure_factor))))

\* mido.Message accepts a data byte only in 0..127
ValidDataByte(b) == 0 <= b /\ b <= 127

\* the two events in the opposite order: the note ends before it starts
NoteEvents_off_first(note, final_velocity, duration_ticks, channel) ==
    <<[type |-> "note_off", note |-> note, velocity |-> 0, time |-> duration_ticks,
       channel |-> channel],
      [type |-> "note_on", note |-> note, velocity |-> final_velocity, time |-> 0,
       channel |-> channel]>>

\* the two events add_track appends for one note
NoteEvents(note, final_velocity, duration_ticks, channel) ==
    <<[type |-> "note_on", note |-> note, velocity |-> final_velocity, time |-> 0,
       channel |-> channel],
      [type |-> "note_off", note |-> note, velocity |-> 0, time |-> duration_ticks,
       channel |-> channel]>>

\* what add_track computed for one item: its place, the draw, the results
NoteRecord(item, current_time_ticks, total_ticks, k) ==
    [note |-> item.note,
     duration_beats |-> ItemBeats(item),
     velocity |-> ItemVelocity(item),
     start |-> current_time_ticks,
     total_ticks |-> total_ticks,
     draw |-> k,
     duration_ticks |-> get_note_duration_ticks(ItemBeats(item), k),
     structure_factor |-> calculate_structure_factor(current_time_ticks, total_ticks),
     final_velocity |->
         FinalVelocity(ItemVelocity(item),
                       calculate_structure_factor(current_time_ticks, total_ticks)),
     emitted |-> ValidDataByte(item.note)]

RECURSIVE NoteLoop_rounding(_, _, _, _, _, _, _, _)
RECURSIVE NoteLoop(_, _, _, _, _, _, _, _)

\* the note loop with the velocity rounded to the nearest integer
NoteLoop_rounding(notes_data, i, total_ticks, channel, current_time_ticks, events, log, x) ==
    IF i > Len(notes_data)
    THEN [events |-> events, log |-> log, error |-> NoneTag]
    ELSE LET rec == NoteRecord(notes_data[i], current_time_ticks, total_ticks,
                               RandomValue(x))
             product == FracMin(FracInt(127),
                                FracMax(FracInt(1), FracMul(FracInt(rec.velocity),
                                                            rec.structure_factor)))
             rounded == (2 * product[1] + product[2]) \div (2 * product[2])
         IN  IF ~rec.emitted
             THEN [events |-> events, log |-> Append(log, rec), error |-> "ValueError"]
             ELSE NoteLoop_rounding(notes_data, i + 1, total_ticks, channel,
                                    current_time_ticks + rec.duration_ticks,
                                    events \o NoteEvents(rec.note, rounded,
                                                         rec.duration_ticks, channel),
                                    Append(log, [rec EXCEPT !.final_velocity = rounded]),
                                    RandomNext(x))

\* the loop "for item in notes_data" from item i on; x is the state of the
\* random source.  A pitch outside 0..127 makes mido.Message raise ValueError,
\* which ends add_track with the events appended so far.
NoteLoop(notes_data, i, total_ticks, channel, current_time_ticks, events, log, x) ==
    IF i > Len(notes_data)
    THEN [events |-> events, log |-> log, error |-> NoneTag]
    ELSE LET rec == NoteRecord(notes_data[i], current_time_ticks, total_ticks,
                               RandomValue(x))
         IN  IF ~rec.emitted
             THEN [events |-> events, log |-> Append(log, rec), error |-> "ValueError"]
             ELSE NoteLoop(notes_data, i + 1, total_ticks, channel,
                           current_time_ticks + rec.duration_ticks,
                           events \o NoteEvents(rec.note, rec.final_velocity,
                                                rec.duration_ticks, channel),
                           Append(log, rec), RandomNext(x))

\* the new track and the log of one add_track call
AddTrackResult(name, notes_data, channel, program, x) ==
    NoteLoop(notes_data, 1, TotalTicks(notes_data), channel, 0,
             <<[type |-> "track_name", name |-> name],
               [type |-> "program_change", program |-> program, time |-> 0,
                channel |-> channel]>>,
             <<>>, x)

\* track 0 with the key signature appended before the time signature
MetaTrack_key_first(tempo, key) ==
    <<[type |-> "set_tempo", tempo |-> 60000000 \div tempo],
      [type |-> "key_signature", key |-> key],
      [type |-> "time_signature", numerator |-> 4, denominator |-> 4,
       clocks_per_click |-> 24, notated_32nd_notes_per_beat |-> 8]>>

\* track 0 as __init__ fills it
MetaTrack(tempo, key) ==
    <<[type |-> "set_tempo", tempo |-> 60000000 \div tempo],
      [type |-> "time_signature", numerator |-> 4, denominator |-> 4,
       clocks_per_click |-> 24, notated_32nd_notes_per_beat |-> 8],
      [type |-> "key_signature", key |-> key]>>

MaxNotes == 2
MaxTracks == 2
TempoChoices == {120}
ArrangerKeys == {C_MAJOR}
Channels == {0, 9}
\* items a generator returns: the three shapes, a zero duration with a
\* velocity above the range, a velocity of zero, and pitches outside 0..127
Items ==
    {IntItem(60), PairItem(62, 200), TripleItem(64, 0, 200), TripleItem(67, 700, 101),
     TripleItem(65, 66, 0), TripleItem(130, 100, 100), PairItem(-3, 50)}

RECURSIVE NotesOfLength(_)
\* the lists of n items
NotesOfLength(n) ==
    IF n = 0 THEN {<<>>}
    ELSE {Append(s, item) : s \in NotesOfLength(n - 1), item \in Items}

\* one item of each shape
ShapeSamples == <<IntItem(60), PairItem(62, 200), TripleItem(67, 700, 101)>>
\* the lists holding one item of each shape, in every order
MixedLists ==
    {<<ShapeSamples[q[1]], ShapeSamples[q[2]], ShapeSamples[q[3]]>> :
        q \in {r \in (1..3) \X (1..3) \X (1..3) : {r[1], r[2], r[3]} = 1..3}}

\* the lists a generator can return
NotesData == UNION {NotesOfLength(n) : n \in 0..MaxNotes} \cup MixedLists

\* SimpleArranger(tempo, key)
ArInit ==
    /\ ar_tempo \in TempoChoices
    /\ ar_key \in ArrangerKeys
    /\ ar_tracks = <<MetaTrack(ar_tempo, ar_key)>>
    /\ ar_calls = <<>>
    /\ ar_status = "ok"

\* random.seed(seed); arranger.add_track(name, generator, channel) where
\* generator.generate(key) returns notes_data and draws nothing; the track is
\* named by its number
AddTrack(notes_data, channel, seed) ==
    /\ ar_status = "ok"
    /\ Len(ar_tracks) <= MaxTracks
    /\ \E r \in {AddTrackResult(Len(ar_tracks), notes_data, channel, 0, RandomSeed(seed))} :
        /\ ar_tracks' = Append(ar_tracks, r.events)
        /\ ar_calls' = Append(ar_calls, [notes_data |-> notes_data, channel |-> channel,
                                         seed |-> seed, notes |-> r.log])
        /\ ar_status' = IF r.error = NoneTag THEN "ok" ELSE r.error
        /\ UNCHANGED <<ar_tempo, ar_key>>
        /\ UNCHANGED notAr

ArNext ==
    \E notes_data \in NotesData, channel \in Channels, seed \in Seeds :
        AddTrack(notes_data, channel, seed)

\* ------------------------------------------------------------------------
\* Strategy registries: MelodyGenerator, HarmonyGenerator, RhythmGenerator
\* (generators/melody.py, generators/harmony.py, generators/rhythm.py)

FromPairs(S) == [n \in {p[1] : p \in S} |-> (CHOOSE p \in S : p[1] = n)[2]]

\* dict.get(name, default)
DictGet(d, name, default) == IF name \in DOMAIN d THEN d[name] ELSE default

MelodySTRATEGIES == FromPairs({<<"random", "RandomWalkStrategy">>, <<"structured", "PatternBasedStrategy">>, <<"neural", "NeuralStyleStrategy">>, <<"genetic", "GeneticOptimizationStrategy">>, <<"mcts", "MonteCarloTreeSearchStrategy">>})

HarmonySTRATEGIES == FromPairs({<<"progression", "ProgressionBasedStrategy">>, <<"diatonic", "DiatonicStrategy">>, <<"functional", "FunctionalStrategy">>, <<"hybrid", "HybridHarmonyStrategy">>})

RhythmSTRATEGIES == FromPairs({<<"random", "RandomRhythmStrategy">>, <<"pattern", "PatternBasedRhythmStrategy">>, <<"swing", "SwingRhythmStrategy">>, <<"groove", "GrooveRhythmStrategy">>, <<"hybrid", "HybridRhythmStrategy">>})

STRATEGIES == [melody |-> MelodySTRATEGIES, harmony |-> HarmonySTRATEGIES, rhythm |-> RhythmSTRATEGIES]

Families == {"melody", "harmony", "rhythm"}

\* the class each generator's __init__ hands to STRATEGIES.get as default
DefaultStrategy_first_registered(family) == CASE family = "melody" -> "RandomWalkStrategy" [] family = "harmony" -> "ProgressionBasedStrategy" [] family = "rhythm" -> "RandomRhythmStrategy"
DefaultStrategy(family) == CASE family = "melody" -> "PatternBasedStrategy" [] family = "harmony" -> "ProgressionBasedStrategy" [] family = "rhythm" -> "PatternBasedRhythmStrategy"

\* keyword parameters of each strategy class's __init__ after the
\* positional key / beats_per_bar
InitKeywords == FromPairs({<<"RandomWalkStrategy", {"transition_matrix"}>>, <<"PatternBasedStrategy", {"length"}>>, <<"NeuralStyleStrategy", {"model_path"}>>, <<"GeneticOptimizationStrategy", {"population_size", "generations"}>>, <<"MonteCarloTreeSearchStrategy", {"simulations"}>>, <<"ProgressionBasedStrategy", {"progression_name", "style"}>>, <<"DiatonicStrategy", {}>>, <<"FunctionalStrategy", {}>>, <<"HybridHarmonyStrategy", {"strategies"}>>, <<"RandomRhythmStrategy", {"allowed_durations"}>>, <<"PatternBasedRhythmStrategy", {"pattern"}>>, <<"SwingRhythmStrategy", {"swing_ratio"}>>, <<"GrooveRhythmStrategy", {"style"}>>, <<"HybridRhythmStrategy", {"strategies"}>>})

ParamNames(params) == {p[1] : p \in params}

ParamGet(params, name, default) == IF name \in ParamNames(params) THEN (CHOOSE p \in params : p[1] = name)[2] ELSE default

\* ProgressionBasedStrategy.__init__: a truthy progression_name that is
\* not in the table raises ValueError
ProgressionInit(params) == LET progression_name == ParamGet(params, "progression_name", NoneTag) IN IF progression_name # NoneTag /\ get_progression_by_name(progression_name) = NoneTag THEN "ValueError" ELSE "ok"

\* strategy_class(key, **strategy_params): the outcome of the call
Construct(class, params) == IF ~(ParamNames(params) \subseteq InitKeywords[class]) THEN "TypeError" ELSE IF class = "ProgressionBasedStrategy" THEN ProgressionInit(params) ELSE "ok"

\* XGenerator.__init__(strategy_name, ..., **strategy_params)
GeneratorInitResult(registry, family, strategy_name, params) == LET strategy_class == DictGet(registry[family], strategy_name, DefaultStrategy(family)) status == Construct(strategy_class, params) IN [family |-> family, strategy_name |-> strategy_name, params |-> params, registry |-> registry[family], strategy_class |-> strategy_class, status |-> status, strategy |-> IF status = "ok" THEN strategy_class ELSE NoneTag]

MaxGenerators == 1
MaxRegistered == 1

StrategyNames == {"random", "structured", "progression", "pattern", "jazzy", ""}

RegisteredNames == {"jazzy", "random"}

ClassesOf(family) == {STRATEGIES[family][n] : n \in DOMAIN STRATEGIES[family]}

ParamChoices == {{}, {<<"population_size", "10">>}, {<<"progression_name", "pop_basic">>}, {<<"progression_name", "no_such_progression">>}, {<<"pattern", "steady_quarters">>}}

GnInit == /\ gn_registry = STRATEGIES /\ gn_generators = <<>> /\ gn_registered = 0

\* XGenerator.register_strategy(name, strategy_class)
RegisterStrategy(family, name, strategy_class) == /\ gn_registered < MaxRegistered /\ gn_registry' = [gn_registry EXCEPT ![family] = [n \in DOMAIN @ \cup {name} |-> IF n = name THEN strategy_class ELSE @[n]]] /\ gn_registered' = gn_registered + 1 /\ UNCHANGED gn_generators /\ UNCHANGED notGn

\* XGenerator(strategy_name, **strategy_params)
GeneratorInit(family, strategy_name, params) == /\ Len(gn_generators) < MaxGenerators /\ gn_generators' = Append(gn_generators, GeneratorInitResult(gn_registry, family, strategy_name, params)) /\ UNCHANGED <<gn_registry, gn_registered>> /\ UNCHANGED notGn

GnNext ==
    \/ \E family \in Families, name \in RegisteredNames : \E strategy_class \in ClassesOf(family) : RegisterStrategy(family, name, strategy_class)
    \/ \E family \in Families, strategy_name \in StrategyNames, params \in ParamChoices : GeneratorInit(family, strategy_name, params)

\* ------------------------------------------------------------------------
\* generators/melody.py : GeneticOptimizationStrategy, and the congruence
\* score of core/theory.py
\* ------------------------------------------------------------------------
\* an exception leaving the call
Raise(error) == [error |-> error]

\* {n % 12 for n in notes}
PitchClasses(notes) == {notes[i] % 12 : i \in 1..Len(notes)}

\* twice the score of one note: 1.0 chord tone, 0.5 scale tone, 0.0 otherwise
NoteScore2(note, chord_notes, scale_notes) == IF note % 12 \in PitchClasses(chord_notes) THEN 2 ELSE IF note % 12 \in PitchClasses(scale_notes) THEN 1 ELSE 0

\* chord_index = min(i // (len(melody) // len(chords)), len(chords) - 1), i counted from 0
ChordIndex(i, melody, chords) == Min((i \div (Len(melody) \div Len(chords))), Len(chords) - 1)

\* GeneticOptimizationStrategy._fitness_function(melody, chords): the loop
\* divides by len(chords) and by len(melody) // len(chords), the return
\* statement by len(melody)
_fitness_function(melody, chords, key) == IF Len(melody) > 0 /\ Len(chords) = 0 THEN Raise("ZeroDivisionError") ELSE IF Len(melody) > 0 /\ Len(melody) \div Len(chords) = 0 THEN Raise("ZeroDivisionError") ELSE IF Len(melody) = 0 THEN Raise("ZeroDivisionError") ELSE [error |-> NoneTag, score |-> Frac(Sum([i \in 1..Len(melody) |-> NoteScore2(melody[i], get_midi_notes(chords[ChordIndex(i - 1, melody, chords) + 1], key, 4), TwoOctaveScale[key])]), 2 * Len(melody))]

\* analyze_melody_congruence(melody_notes, chord, key)
analyze_melody_congruence(melody_notes, chord, key) == IF Len(melody_notes) = 0 THEN [error |-> NoneTag, score |-> <<0, 1>>] ELSE [error |-> NoneTag, score |-> Frac(Sum([i \in 1..Len(melody_notes) |-> NoteScore2(melody_notes[i], get_midi_notes(chord, key, 4), get_scale_notes(key, NoneTag, 4, 1))]), 2 * Len(melody_notes))]

\* random.random() < num/den drawn in state x
RandomBelow(x, num, den) == RandomValue(x) * den < num * RandRange

RECURSIVE RandomNotes(_, _, _, _)
\* [random.choice(scale_notes) for _ in range(length)]: <<list, source after>>
RandomNotes(scale_notes, length, x, acc) == IF Len(acc) >= length THEN <<acc, x>> ELSE RandomNotes(scale_notes, length, RandomNext(x), Append(acc, RandChoice(x, scale_notes)))

RECURSIVE _initialize_population(_, _, _, _, _)
RECURSIVE InitializeNext(_, _, _, _, _)
\* GeneticOptimizationStrategy._initialize_population(length)
InitializeNext(scale_notes, length, population_size, r, acc) == _initialize_population(scale_notes, length, population_size, r[2], Append(acc, r[1]))
_initialize_population(scale_notes, length, population_size, x, acc) == IF Len(acc) >= population_size THEN <<acc, x>> ELSE InitializeNext(scale_notes, length, population_size, RandomNotes(scale_notes, length, x, <<>>), acc)

RECURSIVE _mutate(_, _, _, _)
\* GeneticOptimizationStrategy._mutate(melody), position i counted from 1
_mutate(mutated, i, scale_notes, x) == IF i > Len(mutated) THEN <<mutated, x>> ELSE IF RandomBelow(x, 1, 10) THEN _mutate([mutated EXCEPT ![i] = RandChoice(RandomNext(x), scale_notes)], i + 1, scale_notes, RandomNext(RandomNext(x))) ELSE _mutate(mutated, i + 1, scale_notes, RandomNext(x))

\* parent[:crossover_point] + other[crossover_point:]
Splice(parent, other, crossover_point) == SubSeq(parent, 1, crossover_point) \o SubSeq(other, crossover_point + 1, Len(other))

\* random.sample(selected, 2) drawn in state x: two different positions
Sample2(selected, x) == LET i == RandInt(x, 1, Len(selected)) j == RandInt(RandomNext(x), 1, Len(selected) - 1) IN <<selected[i], selected[IF j >= i THEN j + 1 ELSE j]>>

\* the two mutated children, and the source after them
ChildrenPair(m1, m2) == <<m1[1], m2[1], m2[2]>>
ChildrenSecond(m1, child2, scale_notes) == ChildrenPair(m1, _mutate(child2, 1, scale_notes, m1[2]))
Children(child1, child2, scale_notes, x) == ChildrenSecond(_mutate(child1, 1, scale_notes, x), child2, scale_notes)

\* one pass of the while loop of generate: the two children appended, or the
\* exception of random.sample (fewer than two selected) or of randint in
\* _crossover (parents of fewer than two notes)
OffspringOf(parents, scale_notes, x2) == IF RandomBelow(x2, 7, 10) THEN (IF Len(parents[1]) - 1 < 1 THEN Raise("ValueError") ELSE LET crossover_point == RandInt(RandomNext(x2), 1, Len(parents[1]) - 1) IN [error |-> NoneTag, children |-> Children(Splice(parents[1], parents[2], crossover_point), Splice(parents[2], parents[1], crossover_point), scale_notes, RandomNext(RandomNext(x2)))]) ELSE [error |-> NoneTag, children |-> Children(parents[1], parents[2], scale_notes, RandomNext(x2))]
Offspring(selected, scale_notes, x) == IF Len(selected) < 2 THEN Raise("ValueError") ELSE OffspringOf(Sample2(selected, x), scale_notes, RandomNext(RandomNext(x)))

RECURSIVE Breed(_, _, _, _, _)
RECURSIVE BreedAppend(_, _, _, _, _)
\* while len(new_population) < self.population_size: ...
BreedAppend(new_population, selected, population_size, scale_notes, o) == IF o.error # NoneTag THEN Raise(o.error) ELSE Breed(new_population \o <<o.children[1], o.children[2]>>, selected, population_size, scale_notes, o.children[3])
Breed(new_population, selected, population_size, scale_notes, x) == IF Len(new_population) >= population_size THEN [error |-> NoneTag, new_population |-> new_population, x |-> x] ELSE BreedAppend(new_population, selected, population_size, scale_notes, Offspring(selected, scale_notes, x))

\* sorted(range(len(fitness_scores)), key=lambda i: fitness_scores[i], reverse=True):
\* positions counted from 1, equal scores keep their order
SortedIndices(fitness_scores) == LET n == Len(fitness_scores) before(i) == Cardinality({j \in 1..n : FracLess(fitness_scores[i], fitness_scores[j]) \/ (fitness_scores[j] = fitness_scores[i] /\ j < i)}) IN [k \in 1..n |-> CHOOSE i \in 1..n : before(i) = k - 1]

\* [self._fitness_function(individual, chords) for individual in population]
FitnessList(fs) == IF \E i \in 1..Len(fs) : fs[i].error # NoneTag THEN Raise("ZeroDivisionError") ELSE [error |-> NoneTag, scores |-> [i \in 1..Len(fs) |-> fs[i].score]]
FitnessScores(population, chords, key) == FitnessList([i \in 1..Len(population) |-> _fitness_function(population[i], chords, key)])

\* the first population_size // 2 individuals in the order of sorted_indices
SelectedBy(population, sorted_indices, population_size) == [k \in 1..Min(population_size \div 2, Len(population)) |-> population[sorted_indices[k]]]
Selected(population, fitness_scores, population_size) == SelectedBy(population, SortedIndices(fitness_scores), population_size)

\* fitness_scores.index(max(fitness_scores)), counted from 1
BestIndex(fitness_scores) == CHOOSE i \in 1..Len(fitness_scores) : (\A j \in 1..Len(fitness_scores) : ~FracLess(fitness_scores[i], fitness_scores[j])) /\ (\A h \in 1..(i - 1) : FracLess(fitness_scores[h], fitness_scores[i]))

\* the last three statements of generate
GeneticBest(f, population, trace) == IF f.error # NoneTag THEN [error |-> f.error, melody |-> <<>>, population |-> population, trace |-> trace] ELSE IF Len(population) = 0 THEN [error |-> "ValueError", melody |-> <<>>, population |-> population, trace |-> trace] ELSE [error |-> NoneTag, melody |-> population[BestIndex(f.scores)], population |-> population, trace |-> trace]
GeneticFinish(population, chords, key, trace) == GeneticBest(FitnessScores(population, chords, key), population, trace)

RECURSIVE Evolve(_, _, _, _, _, _, _, _)
RECURSIVE EvolveNext(_, _, _, _, _, _, _, _, _)
\* for generation in range(self.generations): ...; trace keeps, for every
\* generation, the population it started from, the selected individuals and
\* the population it ended with
EvolveNext(b, selected, population, generation, generations, population_size, chords, key, trace) == IF b.error # NoneTag THEN [error |-> b.error, melody |-> <<>>, population |-> population, trace |-> trace] ELSE Evolve(SubSeq(b.new_population, 1, Min(population_size, Len(b.new_population))), generation + 1, generations, population_size, chords, key, b.x, Append(trace, [before |-> population, selected |-> selected, after |-> SubSeq(b.new_population, 1, Min(population_size, Len(b.new_population)))]))
EvolveBreed(selected, population, generation, generations, population_size, chords, key, x, trace) == EvolveNext(Breed(selected, selected, population_size, TwoOctaveScale[key], x), selected, population, generation, generations, population_size, chords, key, trace)
EvolveSelect(f, population, generation, generations, population_size, chords, key, x, trace) == IF f.error # NoneTag THEN [error |-> f.error, melody |-> <<>>, population |-> population, trace |-> trace] ELSE EvolveBreed(Selected(population, f.scores, population_size), population, generation, generations, population_size, chords, key, x, trace)
Evolve(population, generation, generations, population_size, chords, key, x, trace) == IF generation >= generations THEN GeneticFinish(population, chords, key, trace) ELSE EvolveSelect(FitnessScores(population, chords, key), population, generation, generations, population_size, chords, key, x, trace)

\* the chord list generate works with: custom_chords when given and not
\* empty, else the chords of the named progression, else the empty list
ProgressionChords(progression) == [i \in 1..Len(progression.chords) |-> Chord(progression.chords[i][1] - 1, progression.chords[i][2], 0, None)]
GeneticChords(progression_name, custom_chords) == IF custom_chords # <<>> THEN custom_chords ELSE IF get_progression_by_name(progression_name) # NoneTag THEN ProgressionChords(CHORD_PROGRESSIONS[progression_name]) ELSE <<>>

\* GeneticOptimizationStrategy(key, population_size, generations).generate(key, length, progression_name=..., custom_chords=...)
GeneticRun(p, key, generations, population_size, chords) == Evolve(p[1], 0, generations, population_size, chords, key, p[2], <<>>)
GeneticGenerate(key, length, population_size, generations, progression_name, custom_chords, x) == GeneticRun(_initialize_population(TwoOctaveScale[key], length, population_size, x, <<>>), key, generations, population_size, GeneticChords(progression_name, custom_chords))

\* ------------------------------------------------------------------------
\* generators/melody.py : NeuralStyleStrategy, MonteCarloTreeSearchStrategy
\* generators/harmony.py : FunctionalStrategy
\* ------------------------------------------------------------------------
RECURSIVE NeuralJazz(_, _, _, _)
\* style == 'jazz': a chord tone of a random diatonic chord with probability
\* 0.6, else a scale tone
NeuralJazz(key, length, x, melody) == IF Len(melody) >= length THEN melody ELSE IF RandomBelow(x, 6, 10) THEN NeuralJazz(key, length, RandomNext(RandomNext(RandomNext(x))), Append(melody, RandChoice(RandomNext(RandomNext(x)), get_midi_notes(get_diatonic_chord(RandInt(RandomNext(x), 1, 7), key, "major"), key, 4)))) ELSE NeuralJazz(key, length, RandomNext(RandomNext(x)), Append(melody, RandChoice(RandomNext(x), TwoOctaveScale[key])))

\* neighbors = [n for n in self.scale_notes if abs(n - prev_note) <= 4]
Neighbors(scale_notes, prev_note) == SelectSeq(scale_notes, LAMBDA n : Abs(n - prev_note) <= 4)

PopChoice(x, neighbors, scale_notes) == IF neighbors # <<>> THEN RandChoice(x, neighbors) ELSE RandChoice(x, scale_notes)

RECURSIVE NeuralPop(_, _, _, _, _)
\* style == 'pop': melody starts as [self.scale_notes[0]]; for i in range(1, length)
NeuralPop(key, length, i, x, melody) == IF i >= length THEN melody ELSE NeuralPop(key, length, i + 1, RandomNext(x), Append(melody, PopChoice(x, Neighbors(TwoOctaveScale[key], melody[Len(melody)]), TwoOctaveScale[key])))

\* the note after current_note in the default style, interval already drawn
NeuralStep(key, next_note, x) == IF \E k \in 1..Len(TwoOctaveScale[key]) : TwoOctaveScale[key][k] = next_note THEN <<next_note, x>> ELSE <<RandChoice(x, TwoOctaveScale[key]), RandomNext(x)>>

RECURSIVE NeuralDefault(_, _, _, _)
RECURSIVE NeuralDefaultNext(_, _, _, _)
NeuralDefaultNext(key, length, step, melody) == NeuralDefault(key, length, step, melody)
\* any other style: an interval walk from self.scale_notes[0]; cx is <<current_note, source>>
NeuralDefault(key, length, cx, melody) == IF Len(melody) >= length THEN melody ELSE NeuralDefaultNext(key, length, NeuralStep(key, cx[1] + RandChoice(cx[2], <<-2, -1, 1, 2, -3, 3, -4, 4, -5, 5>>), RandomNext(cx[2])), Append(melody, cx[1]))

\* NeuralStyleStrategy(key).generate(key, length, style=style)
NeuralGenerate(key, length, style, x) == [error |-> NoneTag, melody |-> CASE style = "jazz" -> NeuralJazz(key, length, x, <<>>) [] style = "pop" -> NeuralPop(key, length, 1, x, <<TwoOctaveScale[key][1]>>) [] OTHER -> NeuralDefault(key, length, <<TwoOctaveScale[key][1], x>>, <<>>)]

SeqMax(s) == CHOOSE m \in {s[i] : i \in 1..Len(s)} : \A i \in 1..Len(s) : s[i] <= m
SeqMin(s) == CHOOSE m \in {s[i] : i \in 1..Len(s)} : \A i \in 1..Len(s) : s[i] >= m

\* interval_diversity of _evaluate_state
IntervalDiversity(notes) == IF Len(notes) > 1 THEN Frac(Cardinality({Abs(notes[i + 1] - notes[i]) : i \in 1..(Len(notes) - 1)}), Len(notes) - 1) ELSE <<0, 1>>

\* MonteCarloTreeSearchStrategy._evaluate_state(notes, target_length)
_evaluate_state(notes, target_length) == IF Len(notes) < target_length THEN [error |-> NoneTag, score |-> <<0, 1>>] ELSE IF target_length = 0 THEN Raise("ZeroDivisionError") ELSE [error |-> NoneTag, score |-> FracAdd(FracAdd(FracMul(Frac(Len(notes), target_length), Frac(2, 5)), FracMul(IntervalDiversity(notes), Frac(2, 5))), FracMul(FracMin(<<1, 1>>, Frac(SeqMax(notes) - SeqMin(notes), 24)), Frac(1, 5)))]

\* MonteCarloTreeSearchStrategy._get_possible_next_notes(current_notes)
_get_possible_next_notes(key, current_notes) == IF current_notes = <<>> THEN <<TwoOctaveScale[key][1]>> ELSE IF SelectSeq(TwoOctaveScale[key], LAMBDA note : 48 <= note /\ note <= 84 /\ Abs(note - current_notes[Len(current_notes)]) <= 8) # <<>> THEN SelectSeq(TwoOctaveScale[key], LAMBDA note : 48 <= note /\ note <= 84 /\ Abs(note - current_notes[Len(current_notes)]) <= 8) ELSE <<current_notes[Len(current_notes)]>>

\* the first of possible_notes whose test melody scores highest
BestNextNote(scores, possible_notes) == possible_notes[CHOOSE i \in 1..Len(scores) : (\A j \in 1..Len(scores) : ~FracLess(scores[i], scores[j])) /\ (\A h \in 1..(i - 1) : FracLess(scores[h], scores[i]))]

\* the note appended at one position: the best one, or with probability 0.2
\* a random one
NextNote(possible_notes, current_melody, length, x) == IF RandomBelow(x, 2, 10) THEN <<RandChoice(RandomNext(x), possible_notes), RandomNext(RandomNext(x))>> ELSE <<BestNextNote([i \in 1..Len(possible_notes) |-> _evaluate_state(Append(current_melody, possible_notes[i]), length).score], possible_notes), RandomNext(x)>>

RECURSIVE Simulate(_, _, _, _)
RECURSIVE SimulateNext(_, _, _, _)
SimulateNext(key, length, nx, current_melody) == Simulate(key, length, nx[2], Append(current_melody, nx[1]))
\* for position in range(length): ...
Simulate(key, length, x, current_melody) == IF Len(current_melody) >= length THEN <<current_melody, x>> ELSE SimulateNext(key, length, NextNote(_get_possible_next_notes(key, current_melody), current_melody, length, x), current_melody)

RECURSIVE MCTSLoop(_, _, _, _, _, _)
RECURSIVE MCTSKeep(_, _, _, _, _, _, _)
RECURSIVE MCTSScore(_, _, _, _, _, _)
\* if final_score > best_score: keep the melody; best_score None is the initial -1
MCTSKeep(f, sim, key, length, simulation, simulations, best) == IF f.error # NoneTag THEN [error |-> f.error, melody |-> <<>>] ELSE IF best[2] = NoneTag \/ FracLess(best[2], f.score) THEN MCTSLoop(key, length, simulation + 1, simulations, sim[2], <<sim[1], f.score>>) ELSE MCTSLoop(key, length, simulation + 1, simulations, sim[2], best)
MCTSScore(sim, key, length, simulation, simulations, best) == MCTSKeep(_evaluate_state(sim[1], length), sim, key, length, simulation, simulations, best)
\* for simulation in range(self.simulations): ...; best is <<best_melody, best_score>>
MCTSLoop(key, length, simulation, simulations, x, best) == IF simulation >= simulations THEN [error |-> NoneTag, melody |-> best[1]] ELSE MCTSScore(Simulate(key, length, x, <<>>), key, length, simulation, simulations, best)

\* MonteCarloTreeSearchStrategy(key, simulations).generate(key, length)
MCTSGenerate(key, length, simulations, x) == MCTSLoop(key, length, 0, simulations, x, <<<<>>, NoneTag>>)

functional_groups == [T |-> <<0>>, S |-> <<3, 4>>, D |-> <<4, 6>>]

\* the functional pattern of a phrase type
functional_pattern(phrase_type) == CASE phrase_type = "A" -> <<"T", "S", "D", "T">> [] phrase_type = "B" -> <<"S", "T", "S", "D">> [] OTHER -> <<"T", "S", "D", "T">>

RECURSIVE _generate_phrase(_, _, _, _, _)
\* FunctionalStrategy._generate_phrase(phrase_type, beats): <<chords, source after>>
_generate_phrase(key, pattern, beats, x, chords) == IF Len(chords) >= Len(pattern) THEN <<chords, x>> ELSE _generate_phrase(key, pattern, beats, RandomNext(x), Append(chords, <<get_midi_notes(get_diatonic_chord(RandChoice(x, functional_groups[pattern[Len(chords) + 1]]) + 1, key, "major"), key, 4)[1], Frac(beats, Len(pattern))>>))

RECURSIVE FunctionalLoop(_, _, _, _, _, _)
RECURSIVE FunctionalExtend(_, _, _, _, _, _)
FunctionalExtend(key, phrase_structure, phrase_beats, i, r, result) == FunctionalLoop(key, phrase_structure, phrase_beats, i + 1, r[2], result \o r[1])
\* for phrase in phrase_structure: result.extend(self._generate_phrase(phrase, phrase_beats))
FunctionalLoop(key, phrase_structure, phrase_beats, i, x, result) == IF i > Len(phrase_structure) THEN result ELSE FunctionalExtend(key, phrase_structure, phrase_beats, i, _generate_phrase(key, functional_pattern(phrase_structure[i]), phrase_beats, x, <<>>), result)

\* FunctionalStrategy(key, beats_per_bar).generate(num_bars, phrase_structure)
FunctionalGenerate(key, beats_per_bar, num_bars, phrase_structure, x) == IF Len(phrase_structure) = 0 THEN [error |-> "ZeroDivisionError", chords |-> <<>>] ELSE [error |-> NoneTag, chords |-> FunctionalLoop(key, phrase_structure, (num_bars \div Len(phrase_structure)) * beats_per_bar, 1, x, <<>>)]

MaxLength == 5
MaxPopulation == 5
MaxGenerations == 2
MaxMelody == 3

StrategyKeys == {C_MAJOR, <<"A", "m">>}
GeneticProgressions == {"pop_basic", "classical_plagal", "no_such_progression"}
CustomChords == {<<>>, <<Chord(0, "major", 0, None)>>}
RECURSIVE MelodiesOfLength(_, _)
MelodiesOfLength(pitches, n) == IF n = 0 THEN {<<>>} ELSE {Append(m, p) : m \in MelodiesOfLength(pitches, n - 1), p \in pitches}
Melodies == UNION {MelodiesOfLength({60, 61, 66}, n) : n \in 0..MaxMelody}
ChordLists == {<<>>, <<Chord(0, "major", 0, None)>>, <<Chord(3, "major", 0, None), Chord(0, "major", 0, None)>>, GeneticChords("pop_basic", <<>>)}

StInit == /\ st_op = "none" /\ st_args = <<>> /\ st_result = Raise(NoneTag)

\* MelodyGenerator("genetic", key, population_size=..., generations=...).generate(length, ...) after random.seed(seed)
GeneticCall(key, length, population_size, generations, progression_name, custom_chords, seed) == /\ st_op = "none" /\ st_op' = "genetic" /\ st_args' = [key |-> key, length |-> length, population_size |-> population_size, generations |-> generations, progression_name |-> progression_name, custom_chords |-> custom_chords, seed |-> seed] /\ st_result' = GeneticGenerate(key, length, population_size, generations, progression_name, custom_chords, RandomSeed(seed)) /\ UNCHANGED notSt

\* GeneticOptimizationStrategy(key)._fitness_function(melody, chords)
FitnessCall(melody, chords, key) == /\ st_op = "none" /\ st_op' = "fitness" /\ st_args' = [melody |-> melody, chords |-> chords, key |-> key] /\ st_result' = _fitness_function(melody, chords, key) /\ UNCHANGED notSt

\* analyze_melody_congruence(melody_notes, chord, key)
CongruenceCall(melody_notes, chord, key) == /\ st_op = "none" /\ st_op' = "congruence" /\ st_args' = [melody |-> melody_notes, chord |-> chord, key |-> key] /\ st_result' = analyze_melody_congruence(melody_notes, chord, key) /\ UNCHANGED notSt

NeuralStyles == {"jazz", "pop", "classical"}
MaxSimulations == 2
PhraseStructures == {<<"A", "A", "B", "A">>, <<"A", "B">>}

\* MelodyGenerator("neural", key).generate(length, style=style) after random.seed(seed)
NeuralCall(key, length, style, seed) == /\ st_op = "none" /\ st_op' = "neural" /\ st_args' = [key |-> key, length |-> length, style |-> style, seed |-> seed] /\ st_result' = NeuralGenerate(key, length, style, RandomSeed(seed)) /\ UNCHANGED notSt

\* MelodyGenerator("mcts", key, simulations=simulations).generate(length) after random.seed(seed)
MCTSCall(key, length, simulations, seed) == /\ st_op = "none" /\ st_op' = "mcts" /\ st_args' = [key |-> key, length |-> length, simulations |-> simulations, seed |-> seed] /\ st_result' = MCTSGenerate(key, length, simulations, RandomSeed(seed)) /\ UNCHANGED notSt

\* HarmonyGenerator("functional", key, beats_per_bar).generate(num_bars, phrase_structure=...) after random.seed(seed)
FunctionalCall(key, beats_per_bar, num_bars, phrase_structure, seed) == /\ st_op = "none" /\ st_op' = "functional" /\ st_args' = [key |-> key, beats_per_bar |-> beats_per_bar, num_bars |-> num_bars, phrase_structure |-> phrase_structure, seed |-> seed] /\ st_result' = FunctionalGenerate(key, beats_per_bar, num_bars, phrase_structure, RandomSeed(seed)) /\ UNCHANGED notSt

StNext ==
    \/ \E key \in StrategyKeys, length \in 0..MaxLength, population_size \in 1..MaxPopulation, generations \in 0..MaxGenerations : \E progression_name \in GeneticProgressions, custom_chords \in CustomChords, seed \in Seeds : GeneticCall(key, length, population_size, generations, progression_name, custom_chords, seed)
    \/ \E melody \in Melodies, chords \in ChordLists, key \in StrategyKeys : FitnessCall(melody, chords, key)
    \/ \E melody \in Melodies, chords \in ChordLists \ {<<>>}, key \in StrategyKeys : CongruenceCall(melody, chords[1], key)
    \/ \E key \in StrategyKeys, length \in 0..MaxLength, style \in NeuralStyles, seed \in Seeds : NeuralCall(key, length, style, seed)
    \/ \E key \in StrategyKeys, length \in 0..MaxLength, simulations \in 0..MaxSimulations, seed \in Seeds : MCTSCall(key, length, simulations, seed)
    \/ \E key \in StrategyKeys, beats_per_bar \in BeatsPerBarChoices, num_bars \in 0..MaxBars : \E phrase_structure \in PhraseStructures, seed \in Seeds : FunctionalCall(key, beats_per_bar, num_bars, phrase_structure, seed)

\* ------------------------------------------------------------------------
\* generators/harmony.py : HybridHarmonyStrategy with its default pair of
\* strategies (ProgressionBasedStrategy, DiatonicStrategy)
\* ------------------------------------------------------------------------
\* first_bars = int(num_bars * split_ratio)
first_bars(num_bars, split_ratio) == FracTrunc(FracMul(FracInt(num_bars), split_ratio))

\* return first_part + second_part
HybridJoin(first, second, first_bars_value, second_bars) == [error |-> first.error, first_bars |-> first_bars_value, second_bars |-> second_bars, first_part |-> first.result, second_part |-> second.result, chords |-> IF first.error = NoneTag THEN first.result \o second.result ELSE <<>>]

\* the two sub-strategies called with their default options
HybridParts(key, beats_per_bar, progression, first_bars_value, second_bars, x) == HybridJoin(PBGenerateResult(key, beats_per_bar, progression, first_bars_value, 1, "steady", FALSE, "none", x), DTGenerateResult(key, beats_per_bar, second_bars, Frac(1, 2), TRUE, <<>>, x), first_bars_value, second_bars)

\* HybridHarmonyStrategy(key, beats_per_bar).generate(num_bars, split_ratio)
HybridGenerateHarmony(key, beats_per_bar, progression, num_bars, split_ratio, x) == HybridParts(key, beats_per_bar, progression, first_bars(num_bars, split_ratio), num_bars - first_bars(num_bars, split_ratio), x)

SplitRatios == {Frac(-1, 2), <<0, 1>>, Frac(1, 2), Frac(7, 10), <<1, 1>>, Frac(3, 2)}
HybridProgressions == {"pop_basic", "jazz_251"}

\* HarmonyGenerator("hybrid", key, beats_per_bar).generate(num_bars, split_ratio=...) after random.seed(seed);
\* progression is the one get_random_progression() gave the first sub-strategy
HybridCall(key, beats_per_bar, progression, num_bars, split_ratio, seed) == /\ hy_status = "constructed" /\ hy_status' = "returned" /\ hy_args' = [key |-> key, beats_per_bar |-> beats_per_bar, progression |-> progression, num_bars |-> num_bars, split_ratio |-> split_ratio, seed |-> seed] /\ hy_result' = HybridGenerateHarmony(key, beats_per_bar, progression, num_bars, split_ratio, RandomSeed(seed)) /\ UNCHANGED notHy

HyInit == /\ hy_status = "constructed" /\ hy_args = <<>> /\ hy_result = Raise(NoneTag)

HyNext == \E key \in StrategyKeys, beats_per_bar \in BeatsPerBarChoices, progression \in HybridProgressions : \E num_bars \in 0..MaxBars, split_ratio \in SplitRatios, seed \in Seeds : HybridCall(key, beats_per_bar, progression, num_bars, split_ratio, seed)

\* ------------------------------------------------------------------------
\* core/theory.py : get_scale_notes called on its own
\* ------------------------------------------------------------------------
MaxOctave == 8
MaxNumOctaves == 3

ScaleArgs == [key : Key, scale_type : ScaleType \cup {NoneTag}, octave : 0..MaxOctave, num_octaves : 1..MaxNumOctaves]

ScNoArgs == [key |-> C_MAJOR, scale_type |-> NoneTag, octave |-> 4, num_octaves |-> 1]

ScInit == /\ sc_args \in ScaleArgs /\ sc_notes = <<>> /\ sc_status = "called"

\* notes = get_scale_notes(key, scale_type, octave, num_octaves)
GetScaleNotes == /\ sc_status = "called" /\ sc_notes' = get_scale_notes(sc_args.key, sc_args.scale_type, sc_args.octave, sc_args.num_octaves) /\ sc_status' = "returned" /\ UNCHANGED sc_args /\ UNCHANGED notSc

ScNext == GetScaleNotes

\* ------------------------------------------------------------------------
\* composers/simple_arranger.py : _get_note_duration_ticks called on its own
\* ------------------------------------------------------------------------
\* the longest duration tried, in hundredths of a beat
MaxDurationBeats == 200

TkInit == /\ tk_duration_beats \in 0..MaxDurationBeats /\ tk_draw \in 0..(RandRange - 1) /\ tk_ticks = 0 /\ tk_status = "called"

\* ticks = self._get_note_duration_ticks(duration_beats), random.random() giving tk_draw/RandRange
GetNoteDurationTicks == /\ tk_status = "called" /\ tk_ticks' = get_note_duration_ticks(tk_duration_beats, tk_draw) /\ tk_status' = "returned" /\ UNCHANGED <<tk_duration_beats, tk_draw>> /\ UNCHANGED notTk

TkNext == GetNoteDurationTicks

\* ------------------------------------------------------------------------
\* generators/melody.py : MonteCarloTreeSearchStrategy.generate, step by step
\* ------------------------------------------------------------------------
\* the state before the first position of a call
NoStep == [random |-> FALSE, possible_notes |-> <<>>, before |-> <<>>, note |-> None]

McInit == /\ mc_key \in StrategyKeys /\ mc_length \in 0..MaxLength /\ mc_simulations \in 0..MaxSimulations /\ \E seed \in Seeds : mc_x = RandomSeed(seed)
          /\ mc_simulation = 0 /\ mc_melody = <<>> /\ mc_best = <<<<>>, NoneTag>> /\ mc_step = NoStep /\ mc_status = "running"

\* one position of the inner loop: candidates, greedy choice, random override, append
MCTSPositionWith(possible_notes, nx) == /\ mc_melody' = Append(mc_melody, nx[1]) /\ mc_x' = nx[2] /\ mc_step' = [random |-> RandomBelow(mc_x, 2, 10), possible_notes |-> possible_notes, before |-> mc_melody, note |-> nx[1]]
MCTSPosition == /\ mc_status = "running" /\ mc_simulation < mc_simulations /\ Len(mc_melody) < mc_length
                /\ \E possible_notes \in {_get_possible_next_notes(mc_key, mc_melody)} : MCTSPositionWith(possible_notes, NextNote(possible_notes, mc_melody, mc_length, mc_x))
                /\ UNCHANGED <<mc_key, mc_length, mc_simulations, mc_simulation, mc_best, mc_status>> /\ UNCHANGED notMc

\* the end of one simulation: final_score, keep the best, start the next
MCTSSimulationEndWith(f) == IF f.error # NoneTag THEN mc_status' = f.error /\ UNCHANGED <<mc_simulation, mc_melody, mc_best>> ELSE /\ mc_status' = mc_status /\ mc_simulation' = mc_simulation + 1 /\ mc_melody' = <<>> /\ mc_best' = IF mc_best[2] = NoneTag \/ FracLess(mc_best[2], f.score) THEN <<mc_melody, f.score>> ELSE mc_best
MCTSSimulationEnd == /\ mc_status = "running" /\ mc_simulation < mc_simulations /\ Len(mc_melody) >= mc_length
                     /\ MCTSSimulationEndWith(_evaluate_state(mc_melody, mc_length))
                     /\ UNCHANGED <<mc_key, mc_length, mc_simulations, mc_x, mc_step>> /\ UNCHANGED notMc

\* return best_melody
MCTSReturn == /\ mc_status = "running" /\ mc_simulation >= mc_simulations /\ mc_status' = "returned"
              /\ UNCHANGED <<mc_key, mc_length, mc_simulations, mc_simulation, mc_melody, mc_x, mc_best, mc_step>> /\ UNCHANGED notMc

McNext ==
    \/ MCTSPosition
    \/ MCTSSimulationEnd
    \/ MCTSReturn

\* ------------------------------------------------------------------------
\* generators/melody.py : PatternBasedStrategy, core/structure.py : PhraseBuilder
\* ------------------------------------------------------------------------
\* the outcome of `from core.structure import PhraseBuilder`: the class body
\* evaluates the annotation `key: Key` of add_cadence, and the module neither
\* defines nor imports Key
structure_import == "NameError"

RECURSIVE RandomSample(_, _, _, _)
\* random.sample(population, k) for a population of at most 21 elements: k
\* draws from a shrinking pool, the drawn slot refilled with the pool's last
\* element; <<list, source after>>
RandomSample(pool, k, x, acc) == IF Len(acc) >= k THEN <<acc, x>> ELSE RandomSample([i \in 1..(Len(pool) - 1) |-> IF i = RandInt(x, 1, Len(pool)) THEN pool[Len(pool)] ELSE pool[i]], k, RandomNext(x), Append(acc, pool[RandInt(x, 1, Len(pool))]))

\* the first character of the key's value, the element add_cadence appends
KeyLetter(key) == CHOOSE l \in {"A", "B", "C", "D", "E", "F", "G"} : key[1] \in {l, l \o "#", l \o "b"}

\* builder.pieces after add_motif, add_variation and add_cadence
PhrasePieces(key, motif, repeat_count, variation_type) ==
    LET ints(s) == [i \in 1..Len(s) |-> [type |-> "int", value |-> s[i]]]
        repeated == [i \in 1..(Len(motif) * Max(0, repeat_count)) |-> motif[((i - 1) % Len(motif)) + 1]]
        variation == IF variation_type = "interval" THEN [i \in 1..Len(motif) |-> motif[i] + 2]
                     ELSE IF variation_type = "rhythm" THEN motif \o motif
                     ELSE [i \in 1..Len(motif) |-> IF (i - 1) % 2 = 0 THEN motif[i] + 2 ELSE motif[i]]
    IN  ints(repeated) \o ints(variation) \o <<[type |-> "str", text |-> KeyLetter(key)], [type |-> "str", text |-> KeyLetter(key)]>>

\* PhraseBuilder.build: self.pieces[:self.length], for length >= 0
build(pieces, length) == SubSeq(pieces, 1, Min(length, Len(pieces)))

\* PatternBasedStrategy(key).generate(key, length, motif_size=..., repeat_count=..., variation_type=...)
PatternMelodyGenerate(key, length, motif_size, repeat_count, variation_type, x) ==
    IF structure_import # NoneTag THEN [error |-> structure_import, melody |-> <<>>]
    ELSE IF motif_size > Len(TwoOctaveScale[key]) THEN [error |-> "ValueError", melody |-> <<>>]
    ELSE [error |-> NoneTag, melody |-> build(PhrasePieces(key, RandomSample(TwoOctaveScale[key], motif_size, x, <<>>)[1], repeat_count, variation_type), length)]

MaxTarget == 16
MaxMotifSize == 4
MaxRepeatCount == 2
VariationTypes == {"interval", "rhythm", "alternate"}

PmInit == /\ pm_key \in StrategyKeys /\ pm_status = "constructed" /\ pm_args = <<>> /\ pm_result = <<>>

\* MelodyGenerator("pattern", key).generate(length, ...) after random.seed(seed)
PatternMelodyCall(length, motif_size, repeat_count, variation_type, seed) ==
    /\ pm_status = "constructed"
    /\ \E r \in {PatternMelodyGenerate(pm_key, length, motif_size, repeat_count, variation_type, RandomSeed(seed))} :
        /\ pm_status' = IF r.error = NoneTag THEN "returned" ELSE r.error
        /\ pm_result' = r.melody
    /\ pm_args' = [length |-> length, motif_size |-> motif_size, repeat_count |-> repeat_count, variation_type |-> variation_type, seed |-> seed]
    /\ UNCHANGED pm_key /\ UNCHANGED notPm

PmNext == \E length \in 0..MaxTarget, motif_size \in 1..MaxMotifSize, repeat_count \in 0..MaxRepeatCount, variation_type \in VariationTypes, seed \in Seeds : PatternMelodyCall(length, motif_size, repeat_count, variation_type, seed)

\* ------------------------------------------------------------------------
\* generators/melody.py : RandomWalkStrategy, step by step
\* ------------------------------------------------------------------------
\* interval_weights in insertion order, the weights in hundredths
interval_weights == <<<<0, 10>>, <<1, 20>>, <<2, 30>>, <<3, 15>>, <<4, 10>>, <<5, 5>>, <<7, 5>>, <<-1, 20>>, <<-2, 30>>, <<-3, 15>>, <<-4, 10>>, <<-5, 5>>, <<-7, 5>>>>

\* is pitch n an element of the list s
InList(n, s) == \E i \in 1..Len(s) : s[i] = n

\* the row of the default transition matrix for a scale note: <<target, weight>>
\* pairs in insertion order; dividing by the total leaves the sampling unchanged
\* and is done in RandomChoices
Transitions(key, note) == SelectSeq([i \in 1..Len(interval_weights) |-> <<note + interval_weights[i][1], interval_weights[i][2]>>], LAMBDA t : InList(t[1], TwoOctaveScale[key]))

\* current_note in self.transition_matrix: the matrix has a row for every scale note
InMatrix(key, note) == InList(note, TwoOctaveScale[key])

\* random.choices(notes, probabilities)[0] drawn in state x: the first entry
\* whose cumulative probability exceeds random(), the last entry at the latest
RandomChoices(transitions, x) == transitions[CHOOSE i \in 1..Len(transitions) : (i = Len(transitions) \/ RandRange * SumRange([j \in 1..Len(transitions) |-> transitions[j][2]], 1, i) > RandomValue(x) * SumRange([j \in 1..Len(transitions) |-> transitions[j][2]], 1, Len(transitions))) /\ (\A h \in 1..(i - 1) : RandRange * SumRange([j \in 1..Len(transitions) |-> transitions[j][2]], 1, h) <= RandomValue(x) * SumRange([j \in 1..Len(transitions) |-> transitions[j][2]], 1, Len(transitions)))][1]

\* the options without the exclusion of the transition targets
chromatic_options_unfiltered(current_note, transitions) == SelectSeq([i \in 1..7 |-> current_note - 4 + i], LAMBDA n : 48 <= n /\ n <= 84)

\* [n for n in range(current_note - 3, current_note + 4) if n not in notes and 48 <= n <= 84]
chromatic_options(current_note, transitions) == SelectSeq([i \in 1..7 |-> current_note - 4 + i], LAMBDA n : 48 <= n /\ n <= 84 /\ ~\E j \in 1..Len(transitions) : transitions[j][1] = n)

\* self.scale_notes.index(current_note), 0-based
ScaleIndex(key, note) == IF InList(note, TwoOctaveScale[key]) THEN (CHOOSE i \in 1..Len(TwoOctaveScale[key]) : TwoOctaveScale[key][i] = note /\ \A h \in 1..(i - 1) : TwoOctaveScale[key][h] # note) - 1 ELSE 0

\* one pass of the loop body after melody.append: [note, x, draws], draws naming
\* the calls on the random source in the order they are made
WalkExcursion(current_note, options, x) == IF options # <<>> THEN [note |-> RandChoice(RandomNext(x), options), x |-> RandomNext(RandomNext(x)), draws |-> <<"excursion_roll", "excursion_choice">>] ELSE [note |-> current_note, x |-> RandomNext(x), draws |-> <<"excursion_roll">>]
WalkInMatrix(current_note, transitions, x) == IF RandomBelow(x, 1, 10) THEN WalkExcursion(current_note, chromatic_options(current_note, transitions), x) ELSE [note |-> RandomChoices(transitions, RandomNext(x)), x |-> RandomNext(RandomNext(x)), draws |-> <<"excursion_roll", "transition_sample">>]
WalkFallback(key, current_note, x) == [note |-> TwoOctaveScale[key][1 + Max(0, Min(Len(TwoOctaveScale[key]) - 1, ScaleIndex(key, current_note) + RandChoice(x, <<-2, -1, 0, 1, 2>>)))], x |-> RandomNext(x), draws |-> <<"fallback_choice">>]
WalkNext(key, current_note, x) == IF InMatrix(key, current_note) THEN WalkInMatrix(current_note, Transitions(key, current_note), x) ELSE WalkFallback(key, current_note, x)

MaxWalkLength == 10
\* start_note: absent (the first scale note) or an off-scale pitch
StartNotes == {None, 61}

RwInit == /\ rw_key \in StrategyKeys /\ rw_length \in 0..MaxWalkLength /\ (\E seed \in Seeds : rw_x = RandomSeed(seed)) /\ (\E start_note \in StartNotes : rw_current_note = IF start_note = None THEN TwoOctaveScale[rw_key][1] ELSE start_note)
          /\ rw_melody = <<>> /\ rw_draws = <<>> /\ rw_status = "running"

\* for _ in range(length): melody.append(current_note); choose the next current_note
WalkStepWith(n) == /\ rw_current_note' = n.note /\ rw_x' = n.x /\ rw_draws' = n.draws
WalkStep == /\ rw_status = "running" /\ Len(rw_melody) < rw_length
            /\ rw_melody' = Append(rw_melody, rw_current_note)
            /\ WalkStepWith(WalkNext(rw_key, rw_current_note, rw_x))
            /\ UNCHANGED <<rw_key, rw_length, rw_status>> /\ UNCHANGED notRw

\* return melody
WalkReturn == /\ rw_status = "running" /\ Len(rw_melody) >= rw_length /\ rw_status' = "returned"
              /\ UNCHANGED <<rw_key, rw_length, rw_melody, rw_current_note, rw_x, rw_draws>> /\ UNCHANGED notRw

RwNext ==
    \/ WalkStep
    \/ WalkReturn

\* ------------------------------------------------------------------------
\* generators/rhythm.py : RandomRhythmStrategy.generate, step by step
\* ------------------------------------------------------------------------
\* the duration always taken as first drawn, without the check against the
\* remaining beats
RandomRhythmDuration_unchecked(allowed, remaining, x) == [duration |-> RandChoice(x, allowed), x |-> RandomNext(x), kind |-> "allowed"]

\* one pass of the loop body: the drawn duration if it fits, else a second draw
\* among the allowed durations that fit, else the remaining beats
RandomRhythmDuration(allowed, remaining, x) ==
    IF RandChoice(x, allowed) <= remaining THEN [duration |-> RandChoice(x, allowed), x |-> RandomNext(x), kind |-> "allowed"]
    ELSE IF SelectSeq(allowed, LAMBDA d : d <= remaining) # <<>> THEN [duration |-> RandChoice(RandomNext(x), SelectSeq(allowed, LAMBDA d : d <= remaining)), x |-> RandomNext(RandomNext(x)), kind |-> "smaller"]
    ELSE [duration |-> remaining, x |-> RandomNext(x), kind |-> "remaining"]

\* allowed_durations arguments, in hundredths of a beat: the default and lists
\* that do not divide a bar
AllowedDurations == {allowed_durations, <<150>>, <<75, 200>>, <<300, 125>>}

RrInit == /\ rr_allowed \in AllowedDurations /\ rr_beats_per_bar \in 1..MaxBeatsPerBar /\ rr_num_bars \in 0..MaxRhythmBars /\ (\E seed \in Seeds : rr_x = RandomSeed(seed))
          /\ rr_current = 0 /\ rr_durations = <<>> /\ rr_kind = NoneTag /\ rr_status = "running"

\* while current < total_beats: choose a duration, append it, add it to current
RandomRhythmStepWith(r) == /\ rr_durations' = Append(rr_durations, r.duration) /\ rr_current' = rr_current + r.duration /\ rr_x' = r.x /\ rr_kind' = r.kind
RandomRhythmStep == /\ rr_status = "running" /\ rr_current < rr_num_bars * rr_beats_per_bar * Beat
                    /\ RandomRhythmStepWith(RandomRhythmDuration(rr_allowed, rr_num_bars * rr_beats_per_bar * Beat - rr_current, rr_x))
                    /\ UNCHANGED <<rr_allowed, rr_beats_per_bar, rr_num_bars, rr_status>> /\ UNCHANGED notRr

\* return durations
RandomRhythmReturn == /\ rr_status = "running" /\ rr_current >= rr_num_bars * rr_beats_per_bar * Beat /\ rr_status' = "returned"
                      /\ UNCHANGED <<rr_allowed, rr_beats_per_bar, rr_num_bars, rr_current, rr_durations, rr_x, rr_kind>> /\ UNCHANGED notRr

RrNext ==
    \/ RandomRhythmStep
    \/ RandomRhythmReturn

\* ------------------------------------------------------------------------
\* Specifications: each exercises one component, the others stay idle
\* ------------------------------------------------------------------------
ChIdle ==
    /\ ch_key = C_MAJOR
    /\ ch_chord = Chord(0, "major", 0, None)
    /\ ch_notes = <<>>
    /\ ch_called = FALSE

VLIdle ==
    /\ vl_key = C_MAJOR
    /\ vl_chords = <<>>
    /\ vl_before = <<>>
    /\ vl_strategy = NoneTag
    /\ vl_calls = 0

PBIdle ==
    /\ pb_key = C_MAJOR
    /\ pb_beats_per_bar = 4
    /\ pb_progression = "pop_basic"
    /\ pb_args = NoArgs
    /\ pb_chords = <<>>
    /\ pb_result = <<>>
    /\ pb_status = "constructed"

DTIdle ==
    /\ dt_key = C_MAJOR
    /\ dt_beats_per_bar = 4
    /\ dt_args = DTNoArgs
    /\ dt_indices = <<>>
    /\ dt_result = <<>>
    /\ dt_status = "constructed"

RhIdle ==
    /\ rh_kind = "pattern"
    /\ rh_beats_per_bar = 4
    /\ rh_pattern = "steady_quarters"
    /\ rh_constructed = "steady_quarters"
    /\ rh_runs = <<>>

SFIdle ==
    /\ sf_current = 0
    /\ sf_total = 0
    /\ sf_factor = FracInt(0)
    /\ sf_called = FALSE

ArIdle ==
    /\ ar_tempo = 120
    /\ ar_key = C_MAJOR
    /\ ar_tracks = <<>>
    /\ ar_calls = <<>>
    /\ ar_status = "ok"

GnIdle == /\ gn_registry = STRATEGIES /\ gn_generators = <<>> /\ gn_registered = 0

StIdle == /\ st_op = "none" /\ st_args = <<>> /\ st_result = Raise(NoneTag)

HyIdle == /\ hy_status = "constructed" /\ hy_args = <<>> /\ hy_result = Raise(NoneTag)

ScIdle == /\ sc_args = ScNoArgs /\ sc_notes = <<>> /\ sc_status = "called"

TkIdle == /\ tk_duration_beats = 0 /\ tk_draw = 0 /\ tk_ticks = 0 /\ tk_status = "called"

McIdle == /\ mc_key = C_MAJOR /\ mc_length = 0 /\ mc_simulations = 0 /\ mc_simulation = 0 /\ mc_melody = <<>> /\ mc_x = 0 /\ mc_best = <<<<>>, NoneTag>> /\ mc_step = NoStep /\ mc_status = "running"

PmIdle == /\ pm_key = C_MAJOR /\ pm_status = "constructed" /\ pm_args = <<>> /\ pm_result = <<>>

RwIdle == /\ rw_key = C_MAJOR /\ rw_length = 0 /\ rw_melody = <<>> /\ rw_current_note = 60 /\ rw_x = 0 /\ rw_draws = <<>> /\ rw_status = "running"

RrIdle == /\ rr_allowed = allowed_durations /\ rr_beats_per_bar = 4 /\ rr_num_bars = 0 /\ rr_x = 0 /\ rr_current = 0 /\ rr_durations = <<>> /\ rr_kind = NoneTag /\ rr_status = "running"

SpecChordInit == ChInit /\ VLIdle /\ PBIdle /\ DTIdle /\ RhIdle /\ SFIdle /\ ArIdle /\ GnIdle /\ StIdle /\ HyIdle /\ ScIdle /\ TkIdle /\ McIdle /\ PmIdle /\ RwIdle /\ RrIdle
SpecChord == SpecChordInit /\ [][ChNext]_vars

SpecVoiceInit == ChIdle /\ VLInit /\ PBIdle /\ DTIdle /\ RhIdle /\ SFIdle /\ ArIdle /\ GnIdle /\ StIdle /\ HyIdle /\ ScIdle /\ TkIdle /\ McIdle /\ PmIdle /\ RwIdle /\ RrIdle
SpecVoice == SpecVoiceInit /\ [][VLNext]_vars

SpecProgressionInit == ChIdle /\ VLIdle /\ PBInit /\ DTIdle /\ RhIdle /\ SFIdle /\ ArIdle /\ GnIdle /\ StIdle /\ HyIdle /\ ScIdle /\ TkIdle /\ McIdle /\ PmIdle /\ RwIdle /\ RrIdle
SpecProgression == SpecProgressionInit /\ [][PBNext]_vars

SpecDiatonicInit == ChIdle /\ VLIdle /\ PBIdle /\ DTInit /\ RhIdle /\ SFIdle /\ ArIdle /\ GnIdle /\ StIdle /\ HyIdle /\ ScIdle /\ TkIdle /\ McIdle /\ PmIdle /\ RwIdle /\ RrIdle
SpecDiatonic == SpecDiatonicInit /\ [][DTNext]_vars

SpecRhythmInit == ChIdle /\ VLIdle /\ PBIdle /\ DTIdle /\ RhInit /\ SFIdle /\ ArIdle /\ GnIdle /\ StIdle /\ HyIdle /\ ScIdle /\ TkIdle /\ McIdle /\ PmIdle /\ RwIdle /\ RrIdle
SpecRhythm == SpecRhythmInit /\ [][RhNext]_vars

SpecStructureInit == ChIdle /\ VLIdle /\ PBIdle /\ DTIdle /\ RhIdle /\ SFInit /\ ArIdle /\ GnIdle /\ StIdle /\ HyIdle /\ ScIdle /\ TkIdle /\ McIdle /\ PmIdle /\ RwIdle /\ RrIdle
SpecStructure == SpecStructureInit /\ [][SFNext]_vars

SpecArrangerInit == ChIdle /\ VLIdle /\ PBIdle /\ DTIdle /\ RhIdle /\ SFIdle /\ ArInit /\ GnIdle /\ StIdle /\ HyIdle /\ ScIdle /\ TkIdle /\ McIdle /\ PmIdle /\ RwIdle /\ RrIdle
SpecArranger == SpecArrangerInit /\ [][ArNext]_vars

SpecRegistryInit == ChIdle /\ VLIdle /\ PBIdle /\ DTIdle /\ RhIdle /\ SFIdle /\ ArIdle /\ GnInit /\ StIdle /\ HyIdle /\ ScIdle /\ TkIdle /\ McIdle /\ PmIdle /\ RwIdle /\ RrIdle
SpecRegistry == SpecRegistryInit /\ [][GnNext]_vars

SpecStrategiesInit == ChIdle /\ VLIdle /\ PBIdle /\ DTIdle /\ RhIdle /\ SFIdle /\ ArIdle /\ GnIdle /\ StInit /\ HyIdle /\ ScIdle /\ TkIdle /\ McIdle /\ PmIdle /\ RwIdle /\ RrIdle
SpecStrategies == SpecStrategiesInit /\ [][StNext]_vars

SpecHybridInit == ChIdle /\ VLIdle /\ PBIdle /\ DTIdle /\ RhIdle /\ SFIdle /\ ArIdle /\ GnIdle /\ StIdle /\ HyInit /\ ScIdle /\ TkIdle /\ McIdle /\ PmIdle /\ RwIdle /\ RrIdle
SpecHybrid == SpecHybridInit /\ [][HyNext]_vars

SpecScaleInit == ChIdle /\ VLIdle /\ PBIdle /\ DTIdle /\ RhIdle /\ SFIdle /\ ArIdle /\ GnIdle /\ StIdle /\ HyIdle /\ ScInit /\ TkIdle /\ McIdle /\ PmIdle /\ RwIdle /\ RrIdle
SpecScale == SpecScaleInit /\ [][ScNext]_vars

SpecTicksInit == ChIdle /\ VLIdle /\ PBIdle /\ DTIdle /\ RhIdle /\ SFIdle /\ ArIdle /\ GnIdle /\ StIdle /\ HyIdle /\ ScIdle /\ TkInit /\ McIdle /\ PmIdle /\ RwIdle /\ RrIdle
SpecTicks == SpecTicksInit /\ [][TkNext]_vars

SpecSearchInit == ChIdle /\ VLIdle /\ PBIdle /\ DTIdle /\ RhIdle /\ SFIdle /\ ArIdle /\ GnIdle /\ StIdle /\ HyIdle /\ ScIdle /\ TkIdle /\ McInit /\ PmIdle /\ RwIdle /\ RrIdle
SpecSearch == SpecSearchInit /\ [][McNext]_vars

SpecPatternInit == ChIdle /\ VLIdle /\ PBIdle /\ DTIdle /\ RhIdle /\ SFIdle /\ ArIdle /\ GnIdle /\ StIdle /\ HyIdle /\ ScIdle /\ TkIdle /\ McIdle /\ PmInit /\ RwIdle /\ RrIdle
SpecPattern == SpecPatternInit /\ [][PmNext]_vars

SpecWalkInit == ChIdle /\ VLIdle /\ PBIdle /\ DTIdle /\ RhIdle /\ SFIdle /\ ArIdle /\ GnIdle /\ StIdle /\ HyIdle /\ ScIdle /\ TkIdle /\ McIdle /\ PmIdle /\ RwInit /\ RrIdle
SpecWalk == SpecWalkInit /\ [][RwNext]_vars

SpecRandomRhythmInit == ChIdle /\ VLIdle /\ PBIdle /\ DTIdle /\ RhIdle /\ SFIdle /\ ArIdle /\ GnIdle /\ StIdle /\ HyIdle /\ ScIdle /\ TkIdle /\ McIdle /\ PmIdle /\ RwIdle /\ RrInit
\* the loop is sequential code: a step that is enabled is taken
SpecRandomRhythm == SpecRandomRhythmInit /\ [][RrNext]_vars /\ WF_vars(RrNext)

\* ------------------------------------------------------------------------
\* Properties
\* ------------------------------------------------------------------------
\* the chord's pitches with inversion 0 and no explicit bass pitch
PlainNotes(chord, key) == get_midi_notes(Chord(chord.root, chord.quality, 0, None), key, 4)

\* PlainNotes with the first min(k, size-1) pitches raised by an octave
RaisedNotes(chord, key) ==
    LET plain == PlainNotes(chord, key)
        size == Len(get_chord_intervals(chord.quality))
    IN  [j \in 1..size |-> IF j <= Min(chord.inversion, size - 1)
                           THEN plain[j] + 12 ELSE plain[j]]

\* C1: with rhythm "steady", inversion_mode "none" and no voice leading,
\* ProgressionBasedStrategy.generate returns num_bars*chords_per_bar tuples;
\* tuple i holds the scale pitch at index degree-1 of progression entry
\* (i mod progression length) and the duration beats_per_bar/chords_per_bar;
\* C major, pop_basic, 4 bars, 1 chord per bar gives (60,4),(67,4),(69,4),(65,4).
C1_SteadyProgressionTuples ==
    (/\ pb_status = "returned"
     /\ pb_args.rhythm = "steady"
     /\ pb_args.inversion_mode = "none"
     /\ ~pb_args.apply_voice_leading_flag) =>
        LET entries == CHORD_PROGRESSIONS[pb_progression].chords
            n == pb_args.num_bars * pb_args.chords_per_bar
            scale == get_scale_notes(pb_key, NoneTag, 4, 2)
        IN  /\ Len(pb_result) = n
            /\ \A i \in 1..n :
                 LET degree == entries[((i - 1) % Len(entries)) + 1][1]
                     dur == pb_result[i][2]
                 IN  /\ pb_result[i][1] = scale[degree]
                     /\ dur[1] * pb_args.chords_per_bar = dur[2] * pb_beats_per_bar
            /\ (/\ pb_key = C_MAJOR /\ pb_progression = "pop_basic"
                 /\ pb_beats_per_bar = 4 /\ pb_args.num_bars = 4
                 /\ pb_args.chords_per_bar = 1) =>
                    pb_result = <<<<60, <<4, 1>>>>, <<67, <<4, 1>>>>,
                                  <<69, <<4, 1>>>>, <<65, <<4, 1>>>>>>

\* a steady, uninverted run long enough to wrap around the progression
C1_Witness ==
    /\ pb_status = "returned"
    /\ pb_args.rhythm = "steady"
    /\ pb_args.inversion_mode = "none"
    /\ ~pb_args.apply_voice_leading_flag
    /\ pb_key = <<"A", "m">>
    /\ pb_progression = "jazz_251"
    /\ pb_beats_per_bar = 3
    /\ pb_args.chords_per_bar = 2
    /\ Len(pb_result) = 8
    /\ pb_result[4] = pb_result[1]
    /\ pb_result[1][2] = <<3, 2>>

\* sum of the durations (fractions) of the first n tuples of a result
RECURSIVE DurationSum(_, _)
DurationSum(result, n) ==
    IF n = 0 THEN FracInt(0) ELSE FracAdd(DurationSum(result, n - 1), result[n][2])

\* C2: with density 1.0, avoid_repetition and no cadence pattern the chord
\* durations of DiatonicStrategy.generate sum to exactly num_bars*beats_per_bar,
\* no running total exceeds that budget, and no two consecutive chords have
\* the same scale degree.
C2_DiatonicFillsBudget ==
    (/\ dt_status = "returned"
     /\ dt_args.density = Frac(1, 1)
     /\ dt_args.avoid_repetition
     /\ dt_args.cadence_pattern = <<>>) =>
        LET budget == FracInt(dt_args.num_bars * dt_beats_per_bar)
            n == Len(dt_result)
        IN  /\ DurationSum(dt_result, n) = budget
            /\ \A k \in 1..n : ~FracLess(budget, DurationSum(dt_result, k))
            /\ \A k \in 1..n : FracLess(FracInt(0), dt_result[k][2])
            /\ Len(dt_indices) = n
            /\ \A k \in 1..(n - 1) :
                 /\ dt_indices[k] # dt_indices[k + 1]
                 /\ dt_result[k][1] # dt_result[k + 1][1]

\* a run whose last chord drew a duration longer than what was left
C2_Witness ==
    /\ dt_status = "returned"
    /\ dt_args.density = Frac(1, 1)
    /\ dt_args.avoid_repetition
    /\ dt_args.cadence_pattern = <<>>
    /\ dt_args.num_bars = 1
    /\ dt_beats_per_bar = 3
    /\ Len(dt_result) >= 2
    /\ dt_result[Len(dt_result)][2] = Frac(3, 2)

\* the inversions 0..3 of chord c ordered by the movement from prev
VLCost(c, k, key, prev) ==
    Movement(get_midi_notes([c EXCEPT !.inversion = k], key, 4), prev)

\* C4 as stated: after a SMOOTH pass over a list of at least two chords, the
\* inversion of every chord i >= 1 is the smallest k in 0..3 minimising the
\* summed absolute distance between the pitches of chord i with inversion k
\* and the previous pitch list (chord 0 as given, or chord i-1 as re-inverted).
C4_MinimalMovementInversion ==
    (vl_calls >= 1 /\ vl_strategy = "smooth" /\ Len(vl_chords) >= 2) =>
        \A i \in 2..Len(vl_chords) :
            LET prev == IF i = 2 THEN get_midi_notes(vl_before[1], vl_key, 4)
                        ELSE get_midi_notes(vl_chords[i - 1], vl_key, 4)
                c == vl_before[i]
                k == vl_chords[i].inversion
            IN  /\ k \in 0..3
                /\ \A k2 \in 0..3 :
                      /\ VLCost(c, k, vl_key, prev) <= VLCost(c, k2, vl_key, prev)
                      /\ k2 < k => VLCost(c, k, vl_key, prev) < VLCost(c, k2, vl_key, prev)

C6_SameSeedSameResult ==
    \A j, k \in 1..Len(rh_runs) :
        (rh_runs[j].seed = rh_runs[k].seed /\ rh_runs[j].num_bars = rh_runs[k].num_bars)
            => rh_runs[j].result = rh_runs[k].result

\* C7: with p = current/total, _calculate_structure_factor returns
\* 0.6 + (p/0.15)*0.4 for p < 0.15, 1.0 for 0.15 <= p < 0.70,
\* 1.0 + ((p-0.70)/0.20)*0.2 for 0.70 <= p < 0.90 and 1.2 - ((p-0.90)/0.10)*0.5
\* for p >= 0.90; so it is 0.6 at p = 0, 1.0 at p = 0.70 and 0.7 at p = 1.0;
\* a total of zero ticks gives 1.0.  (The segments are written here in closed
\* form over the integers c = current and t = total.)
C7_StructureFactorPiecewise ==
    sf_called =>
        LET c == sf_current
            t == sf_total
        IN  /\ t = 0 => sf_factor = <<1, 1>>
            /\ (t > 0 /\ 100 * c < 15 * t) => sf_factor = Frac(9 * t + 40 * c, 15 * t)
            /\ (t > 0 /\ 100 * c >= 15 * t /\ 100 * c < 70 * t) => sf_factor = <<1, 1>>
            /\ (t > 0 /\ 100 * c >= 70 * t /\ 100 * c < 90 * t) =>
                   sf_factor = Frac(3 * t + 10 * c, 10 * t)
            /\ (t > 0 /\ 100 * c >= 90 * t) => sf_factor = Frac(57 * t - 50 * c, 10 * t)
            /\ (t > 0 /\ c = 0) => sf_factor = <<3, 5>>
            /\ (t > 0 /\ 10 * c = 7 * t) => sf_factor = <<1, 1>>
            /\ (t > 0 /\ c = t) => sf_factor = <<7, 10>>

\* a call at the very end of the piece (p = 1.0) has returned 0.7
C7_Witness ==
    /\ sf_called
    /\ sf_total = 20
    /\ sf_current = 20
    /\ sf_factor = <<7, 10>>

\* every note add_track has processed, over all calls
AllNotes == UNION {{ar_calls[c].notes[i] : i \in 1..Len(ar_calls[c].notes)} :
                   c \in 1..Len(ar_calls)}
\* every note_on / note_off event of every added track
AllEvents(type) ==
    UNION {{ar_tracks[t][i] : i \in {j \in 1..Len(ar_tracks[t]) : ar_tracks[t][j].type = type}} :
           t \in 2..Len(ar_tracks)}

\* x rounded to the nearest integer, x a non-negative fraction
RoundFrac(x) == (2 * x[1] + x[2]) \div (2 * x[2])
\* clamp(v, 1, 127) for an integer v
Clamp(v) == Max(1, Min(127, v))

\* C8 as stated: the note-start velocity is clamp(round(base_velocity *
\* factor), 1, 127), the product rounded to the nearest integer before clamping.
C8_VelocityRounded ==
    \A n \in AllNotes :
        n.emitted =>
            n.final_velocity =
                Clamp(RoundFrac(FracMul(FracInt(n.velocity), n.structure_factor)))

\* C8 amended: the note-start velocity is the product base_velocity * factor
\* clamped to [1,127] and then truncated toward zero; factor is the envelope
\* value at the note's start.
C8_VelocityTruncated ==
    \A n \in AllNotes :
        LET product == FracMul(FracInt(n.velocity), n.structure_factor)
        IN  /\ n.structure_factor = calculate_structure_factor(n.start, n.total_ticks)
            /\ FracLess(product, FracInt(1)) => n.final_velocity = 1
            /\ FracLess(FracInt(127), product) => n.final_velocity = 127
            /\ (~FracLess(product, FracInt(1)) /\ ~FracLess(FracInt(127), product)) =>
                   n.final_velocity = product[1] \div product[2]

\* a note of base velocity 101 at the start of its track: 101 * 0.6 = 60.6,
\* emitted with velocity 60
C8_Witness ==
    \E n \in AllNotes :
        /\ n.emitted
        /\ n.velocity = 101
        /\ n.start = 0
        /\ n.structure_factor = <<3, 5>>
        /\ n.final_velocity = 60
        /\ \E e \in AllEvents("note_on") : e.note = n.note /\ e.velocity = 60

\* C9: after any sequence of add_track calls every note-start event has a
\* velocity in [1,127] and every note-end event a duration of at least 1 tick.
C9_VelocityAndDurationRanges ==
    /\ \A e \in AllEvents("note_on") : 1 <= e.velocity /\ e.velocity <= 127 /\ e.time = 0
    /\ \A e \in AllEvents("note_off") : e.time >= 1
    /\ \A n \in AllNotes : n.duration_ticks >= 1

\* two tracks added; they hold a note of zero beats lasting 1 tick, a base
\* velocity of 200 emitted as 127 and a base velocity of 0 emitted as 1
C9_Witness ==
    /\ Len(ar_tracks) = 3
    /\ \E n \in AllNotes : n.emitted /\ n.duration_beats = 0 /\ n.duration_ticks = 1
    /\ \E n \in AllNotes : n.emitted /\ n.velocity = 200 /\ n.final_velocity = 127
    /\ \E n \in AllNotes : n.emitted /\ n.velocity = 0 /\ n.final_velocity = 1
    /\ \E n \in AllNotes : n.emitted /\ n.draw # RandRange \div 2 /\ n.duration_beats > 0

\* C10: every pitch the arranger emits lies in 0..127; a note whose pitch is
\* outside the range is clipped into it before its events are emitted, not
\* emitted unchanged and not rejected.
C10_PitchClipped ==
    /\ ar_status = "ok"
    /\ \A c \in 1..Len(ar_calls) :
         /\ Len(ar_calls[c].notes) = Len(ar_calls[c].notes_data)
         /\ Len(ar_tracks[c + 1]) = 2 + 2 * Len(ar_calls[c].notes_data)
         /\ \A i \in 1..Len(ar_calls[c].notes_data) :
              /\ ar_tracks[c + 1][2 * i + 1].note =
                     Max(0, Min(127, ar_calls[c].notes_data[i].note))
              /\ ar_tracks[c + 1][2 * i + 2].note =
                     Max(0, Min(127, ar_calls[c].notes_data[i].note))

\* the notes of call c that were emitted, in input order
Accepted(c) == SelectSeq(ar_calls[c].notes, LAMBDA n : n.emitted)

\* C11: each added track is a track-name event, a program-change event on the
\* track's channel, then for each accepted note in input order a note-start
\* event with delta 0 immediately followed by the note-end event of the same
\* pitch whose delta is the note's tick duration, all on the track's channel;
\* the note events are twice the accepted notes.
C11_TrackEventOrder ==
    \A c \in 1..Len(ar_calls) :
        LET track == ar_tracks[c + 1]
            channel == ar_calls[c].channel
            acc == Accepted(c)
        IN  /\ Len(track) = 2 + 2 * Len(acc)
            /\ track[1].type = "track_name"
            /\ track[2].type = "program_change"
            /\ track[2].channel = channel
            /\ \A i \in 1..Len(acc) :
                 /\ acc[i].note = ar_calls[c].notes_data[i].note
                 /\ track[2 * i + 1] = [type |-> "note_on", note |-> acc[i].note,
                                        velocity |-> acc[i].final_velocity, time |-> 0,
                                        channel |-> channel]
                 /\ track[2 * i + 2] = [type |-> "note_off", note |-> acc[i].note,
                                        velocity |-> 0, time |-> acc[i].duration_ticks,
                                        channel |-> channel]

\* two tracks on different channels: the first holds three notes, the second
\* call was cut short after its first note
C11_Witness ==
    /\ Len(ar_tracks) = 3
    /\ Len(ar_tracks[2]) = 8
    /\ ar_calls[1].channel = 9
    /\ ar_calls[2].channel = 0
    /\ Len(ar_calls[2].notes_data) = 2
    /\ Len(Accepted(2)) = 1
    /\ Len(ar_tracks[3]) = 4
    /\ ar_tracks[3][4].time = ar_calls[2].notes[1].duration_ticks

C14_ZeroLengthEmpty == /\ (st_op \in {"neural", "genetic", "mcts"} /\ st_args.length = 0 => st_result.error = NoneTag /\ st_result.melody = <<>>) /\ (st_op = "functional" /\ st_args.num_bars = 0 => st_result.error = NoneTag /\ st_result.chords = <<>>)

\* C15: the genetic melody strategy called with a progression_name that is
\* not in the progression table (and no custom_chords) fails with the
\* not-found error (the ValueError of the progression lookup), whatever the
\* other arguments are.
C15_UnknownProgressionNotFound == st_op = "genetic" /\ st_args.custom_chords = <<>> /\ get_progression_by_name(st_args.progression_name) = NoneTag => st_result.error = "ValueError"

\* C17: _fitness_function and analyze_melody_congruence return a score in
\* [0, 1] without raising for every melody and chord list: 0 when the melody
\* or the chord list is empty, else the mean of the per-note scores, also
\* when the melody has fewer notes than there are chords.
C17_ScoresTotal == st_op \in {"fitness", "congruence"} => /\ st_result.error = NoneTag /\ ~FracLess(st_result.score, <<0, 1>>) /\ ~FracLess(<<1, 1>>, st_result.score) /\ (Len(st_args.melody) = 0 => st_result.score = <<0, 1>>) /\ (st_op = "fitness" /\ Len(st_args.chords) = 0 => st_result.score = <<0, 1>>)

\* the fitness generate computes for an individual of the call in st_args
CallFitness(individual) == _fitness_function(individual, GeneticChords(st_args.progression_name, st_args.custom_chords), st_args.key).score

\* C20: a genetic run with population_size >= 1, generations >= 0 and
\* length >= 1 (and a chord list to score against) completes without raising;
\* every generation keeps the population_size // 2 fittest individuals
\* unchanged at the head of the next population, which has exactly
\* population_size individuals; the returned melody has the maximum fitness
\* of the final population.
C20_GeneticRun == st_op = "genetic" /\ st_args.length >= 1 /\ st_args.population_size >= 1 /\ (st_args.custom_chords # <<>> \/ get_progression_by_name(st_args.progression_name) # NoneTag) => /\ st_result.error = NoneTag /\ Len(st_result.trace) = st_args.generations /\ Len(st_result.population) = st_args.population_size /\ (\A g \in 1..Len(st_result.trace) : LET t == st_result.trace[g] IN /\ Len(t.after) = st_args.population_size /\ Len(t.selected) = st_args.population_size \div 2 /\ SubSeq(t.after, 1, Len(t.selected)) = t.selected /\ (\A k \in 1..Len(t.selected) : Cardinality({j \in 1..Len(t.before) : FracLess(CallFitness(t.selected[k]), CallFitness(t.before[j]))}) < Len(t.selected))) /\ (\E i \in 1..Len(st_result.population) : st_result.population[i] = st_result.melody) /\ (\A i \in 1..Len(st_result.population) : ~FracLess(CallFitness(st_result.melody), CallFitness(st_result.population[i])))

\* C16: HybridHarmonyStrategy.generate hands its two sub-strategies bar
\* counts that both lie within 0..num_bars and add up to num_bars, a ratio
\* above 1 behaving as 1 and a ratio below 0 as 0, and returns the first
\* sub-strategy's output followed by the second's.
C16_SplitClamped == hy_status = "returned" => /\ hy_result.first_bars \in 0..hy_args.num_bars /\ hy_result.second_bars \in 0..hy_args.num_bars /\ hy_result.first_bars + hy_result.second_bars = hy_args.num_bars /\ (FracLess(<<1, 1>>, hy_args.split_ratio) => hy_result.first_bars = hy_args.num_bars) /\ (FracLess(hy_args.split_ratio, <<0, 1>>) => hy_result.first_bars = 0) /\ hy_result.chords = hy_result.first_part \o hy_result.second_part

\* the interval pattern of the call in sc_args
ScPattern == get_scale_intervals(IF sc_args.scale_type = NoneTag THEN scale_type(sc_args.key) ELSE sc_args.scale_type)

\* C18: get_scale_notes returns len(pattern) * num_octaves strictly ascending
\* pitches that start at tonic + (octave - 4) * 12, whose consecutive
\* differences follow the interval pattern cyclically, and where the entry
\* len(pattern) places later is 12 higher.
C18_ScaleShape == sc_status = "returned" => /\ Len(sc_notes) = Len(ScPattern) * sc_args.num_octaves /\ sc_notes[1] = tonic(sc_args.key) + (sc_args.octave - 4) * 12 /\ (\A i \in 1..(Len(sc_notes) - 1) : sc_notes[i] < sc_notes[i + 1] /\ sc_notes[i + 1] - sc_notes[i] = ScPattern[((i - 1) % Len(ScPattern)) + 1]) /\ (\A i \in 1..(Len(sc_notes) - Len(ScPattern)) : sc_notes[i + Len(ScPattern)] = sc_notes[i] + 12)
C18_Witness == /\ sc_status = "returned" /\ sc_args = [key |-> <<"A", "m">>, scale_type |-> "blues", octave |-> 2, num_octaves |-> 2] /\ sc_notes = <<45, 48, 50, 51, 52, 55, 57, 60, 62, 63, 64, 67>>

\* ticks = max(1, n + j) for an integer jitter j of at most 5% of n
WithinJitter(ticks, n) == \E j \in -((5 * n) \div 100)..((5 * n) \div 100) : ticks = Max(1, n + j)

\* C19 as stated: the tick count is max(1, n + j) with n = round(d * 480),
\* the nearest integer, and |j| <= 5% of n.
C19_TicksRounded == tk_status = "returned" => WithinJitter(tk_ticks, RoundFrac(<<tk_duration_beats * ticks_per_beat, Beat>>))

\* C19 (amended): the tick count is max(1, n + j) with n = int(d * 480), the
\* product truncated toward zero, and |j| <= 5% of n.
C19_TicksTruncated == tk_status = "returned" => WithinJitter(tk_ticks, Trunc(tk_duration_beats * ticks_per_beat, Beat))

\* 0.01 beat: 4.8 ticks become 4, where the nearest integer is 5
C19_Witness == /\ tk_status = "returned" /\ tk_duration_beats = 1 /\ tk_draw = 0 /\ tk_ticks = 4

\* completion * 0.4 + distinct-interval ratio * 0.4 + normalised pitch range * 0.2
\* of a non-empty note list, whatever its length
Heuristic(notes, target_length) == FracAdd(FracAdd(FracMul(Frac(Len(notes), target_length), Frac(2, 5)), FracMul(IntervalDiversity(notes), Frac(2, 5))), FracMul(FracMin(<<1, 1>>, Frac(SeqMax(notes) - SeqMin(notes), 24)), Frac(1, 5)))

\* C21: at every step of the simulation search that is not a random step,
\* the appended note is a candidate whose heuristic value (completion * 0.4
\* + distinct-interval ratio * 0.4 + normalised pitch range * 0.2 of the
\* test continuation) is the highest among the candidates, also when the
\* continuation is shorter than the target length.
C21_GreedyByHeuristic == mc_step.note # None /\ ~mc_step.random => \A i \in 1..Len(mc_step.possible_notes) : ~FracLess(Heuristic(Append(mc_step.before, mc_step.note), mc_length), Heuristic(Append(mc_step.before, mc_step.possible_notes[i]), mc_length))

\* C22: with inversion_mode "bass_motion", a progression and at least two
\* chords, ProgressionBasedStrategy.generate completes, and (without the
\* voice-leading pass) chord i >= 1 has inversion 1 or 2 exactly when its
\* root-position bass pitch is more than 7 semitones away from the previous
\* chord's bass pitch, and inversion 0 otherwise.
C22_BassMotionCompletes ==
    (/\ pb_status # "constructed"
     /\ pb_args.inversion_mode = "bass_motion"
     /\ pb_progression # NoneTag
     /\ pb_args.num_bars * pb_args.chords_per_bar >= 2) =>
        /\ pb_status = "returned"
        /\ Len(pb_chords) = pb_args.num_bars * pb_args.chords_per_bar
        /\ ~pb_args.apply_voice_leading_flag =>
             \A i \in 2..Len(pb_chords) :
                IF Abs(get_midi_notes(ApplyInversion(pb_chords[i], 0), pb_key, 4)[1] - get_midi_notes(pb_chords[i - 1], pb_key, 4)[1]) > 7
                THEN pb_chords[i].inversion \in {1, 2}
                ELSE pb_chords[i].inversion = 0

\* C23: the pattern-based melody strategy returns exactly `length` elements
\* for every target length, motif size and repeat count (truncating a longer
\* phrase and padding a shorter one, e.g. motif size 4, 2 repeats, target 16),
\* and every returned element is an integer pitch.
C23_PatternLength == pm_status # "constructed" => /\ pm_status = "returned" /\ Len(pm_result) = pm_args.length /\ \A i \in 1..Len(pm_result) : pm_result[i].type = "int"

\* C24: in every step of the random walk whose current pitch has a row in
\* the transition table, the draw that samples the next pitch from the
\* transition weights is taken first and the draw that decides the chromatic
\* excursion second, and both are taken.
C24_SampleBeforeRoll == rw_melody # <<>> /\ InMatrix(rw_key, rw_melody[Len(rw_melody)]) => Len(rw_draws) >= 2 /\ rw_draws[1] = "transition_sample" /\ rw_draws[2] = "excursion_roll"

C26_GenerateLeavesState == rh_runs # <<>> => rh_pattern = rh_constructed

C28_FunctionalCoversPiece ==
    (st_op = "functional" /\ st_args.num_bars >= 1 /\ Len(st_args.phrase_structure) >= 1) =>
        /\ st_result.error = NoneTag
        /\ Len(st_result.chords) = 4 * Len(st_args.phrase_structure)
        /\ \A i \in 1..Len(st_result.chords) :
              /\ FracLess(FracInt(0), st_result.chords[i][2])
              /\ st_result.chords[i][2] = st_result.chords[4 * ((i - 1) \div 4) + 1][2]
              /\ \E d \in {0, 3, 4, 6} : /\ st_result.chords[i][1] = TwoOctaveScale[st_args.key][d + 1]
                                        /\ d \in (LET f == (IF st_args.phrase_structure[((i - 1) \div 4) + 1] = "B" THEN <<"S", "T", "S", "D">> ELSE <<"T", "S", "D", "T">>)[((i - 1) % 4) + 1] IN IF f = "T" THEN {0} ELSE IF f = "S" THEN {3, 4} ELSE {4, 6})
        /\ DurationSum(st_result.chords, Len(st_result.chords)) = FracInt(st_args.num_bars * st_args.beats_per_bar)

\* the budget is never exceeded, every duration is an allowed one or the exact
\* remainder taken when no allowed duration fits, and the returned durations
\* sum to the budget
RandomRhythmSafe ==
    /\ rr_current = SumRange(rr_durations, 1, Len(rr_durations))
    /\ rr_current <= rr_num_bars * rr_beats_per_bar * Beat
    /\ \A i \in 1..Len(rr_durations) : rr_durations[i] > 0 /\ (InList(rr_durations[i], rr_allowed) \/ (i = Len(rr_durations) /\ rr_kind = "remaining"))
    /\ rr_kind = "remaining" => /\ rr_current = rr_num_bars * rr_beats_per_bar * Beat /\ \A j \in 1..Len(rr_allowed) : rr_allowed[j] > rr_durations[Len(rr_durations)]
    /\ rr_status = "returned" => rr_current = rr_num_bars * rr_beats_per_bar * Beat

TracksWellFormed ==
    /\ Len(ar_tracks) = 1 + Len(ar_calls)
    /\ Len(ar_tracks[1]) = 3
    /\ ar_tracks[1][1].type = "set_tempo"
    /\ ar_tracks[1][2].type = "time_signature" /\ ar_tracks[1][2].numerator = 4 /\ ar_tracks[1][2].denominator = 4
    /\ ar_tracks[1][3].type = "key_signature" /\ ar_tracks[1][3].key = ar_key
    /\ \A k \in 1..Len(ar_calls) : ar_calls[k].notes_data = <<>> => /\ Len(ar_tracks[k + 1]) = 2 /\ ar_tracks[k + 1][1].type = "track_name" /\ ar_tracks[k + 1][2].type = "program_change"

\* add_track appends one track and leaves the tracks before it as they were
AddTrackAppendsOne == /\ Len(ar_tracks') = Len(ar_tracks) + 1 /\ \A i \in 1..Len(ar_tracks) : ar_tracks'[i] = ar_tracks[i]

\* C30: after any sequence of add_track calls the arranger holds 1 + (number
\* of calls) tracks, track 0 being the header with tempo, 4/4 time signature
\* and key signature in this order and no note events; each call appends one
\* track and leaves track 0 and the earlier tracks unchanged, also when the
\* generator returns an empty list (the new track then holds only its name
\* and program change).
C30_TracksAppendOnly == []TracksWellFormed /\ [][AddTrackAppendsOne]_vars

\* two calls, the first with an empty list, the second with notes
C30_Witness == /\ Len(ar_tracks) = 3 /\ ar_calls[1].notes_data = <<>> /\ Len(ar_tracks[2]) = 2 /\ ar_calls[2].notes_data # <<>> /\ Len(ar_tracks[3]) > 2 /\ ar_status = "ok"

====
